---- MODULE Spec2Model ----
(***************************************************************************)
(* libecli: the context/session state machine, the command resolver, the  *)
(* dispatch table, the output registry and the single-client line server. *)
(*                                                                         *)
(* C strings are modelled as sequences of one-character strings, so that   *)
(* trimming, tokenising, joining and template substitution are computed    *)
(* character by character as the C code computes them.                     *)
(***************************************************************************)
EXTENDS Integers, Sequences, FiniteSets, TLC

(* ------------------------------------------------------------------ *)
(* String literals of the sources (text after each name, as a tuple).  *)
(* ------------------------------------------------------------------ *)
s_show == <<"s","h","o","w">>
s_run == <<"r","u","n">>
s_running_config == <<"r","u","n","n","i","n","g","-","c","o","n","f","i","g">>
s_version == <<"v","e","r","s","i","o","n">>
s_name == <<"n","a","m","e">>
s_address == <<"a","d","d","r","e","s","s">>
s_set == <<"s","e","t">>
s_write == <<"w","r","i","t","e">>
s_terminal == <<"t","e","r","m","i","n","a","l">>
s_hello == <<"h","e","l","l","o">>
s_quit == <<"q","u","i","t">>
s_exit == <<"e","x","i","t">>
s_end == <<"e","n","d">>
s_sh == <<"s","h">>
s_ver == <<"v","e","r">>
s_runn == <<"r","u","n","n">>
s_bogus == <<"b","o","g","u","s">>
s_Alice == <<"A","l","i","c","e">>
s_Bob == <<"B","o","b">>
s_world == <<"w","o","r","l","d">>
s_ip1 == <<"1","0",".","0",".","0",".","1">>
s_prompt_cli == <<"c","l","i",">"," ">>
s_Error == <<"E","r","r","o","r",":"," ">>
s_Parse_error == <<"P","a","r","s","e"," ","e","r","r","o","r","\n">>
s_Unknown_command == <<"U","n","k","n","o","w","n"," ","c","o","m","m","a","n","d",":"," ">>
s_No_handler == <<"N","o"," ","h","a","n","d","l","e","r"," ","f","o","r"," ","c","o","m","m","a","n","d","\n">>
s_Already_top == <<"A","l","r","e","a","d","y"," ","a","t"," ","t","o","p"," ","l","e","v","e","l","\n">>
s_Goodbye == <<"G","o","o","d","b","y","e","!","\n">>
s_Hello == <<"H","e","l","l","o",","," ">>
s_bang_nl == <<"!","\n">>
s_Name == <<"N","a","m","e",":"," ">>
s_Name_set == <<"N","a","m","e"," ","s","e","t"," ","t","o"," ","'">>
s_quote_nl == <<"'","\n">>
s_Address == <<"A","d","d","r","e","s","s",":"," ">>
s_Address_set == <<"A","d","d","r","e","s","s"," ","s","e","t"," ","t","o"," ","'">>
s_Address_none == <<"A","d","d","r","e","s","s",":"," ","n","o","t"," ","c","o","n","f","i","g","u","r","e","d","\n">>
s_libecli_version == <<"l","i","b","e","c","l","i"," ","v","e","r","s","i","o","n"," ">>
s_ECLI_VERSION == <<"1",".","0",".","0">>
s_copyright == <<"C","o","p","y","r","i","g","h","t"," ","(","C",")"," ","2","0","2","6"," ","F","r","e","e"," ","M","o","b","i","l","e",","," ","V","i","n","c","e","n","t"," ","J","a","r","d","i","n","\n">>
s_spdx == <<"S","P","D","X","-","L","i","c","e","n","s","e","-","I","d","e","n","t","i","f","i","e","r",":"," ","A","G","P","L","-","3",".","0","-","o","r","-","l","a","t","e","r","\n">>
s_dump_header == <<"!"," ","r","u","n","n","i","n","g"," ","c","o","n","f","i","g","u","r","a","t","i","o","n","\n">>
s_bang_sp == <<"!"," ">>
s_configuration_nl == <<" ","c","o","n","f","i","g","u","r","a","t","i","o","n","\n">>
s_bang_end_sp == <<"!"," ","e","n","d"," ">>
s_bang_end_nl == <<"!"," ","e","n","d","\n">>
s_fmt_set_name == <<"s","e","t"," ","n","a","m","e"," ","{","v","a","l","u","e","}","\n">>
s_fmt_set_address == <<"s","e","t"," ","a","d","d","r","e","s","s"," ","{","i","p","v","4","}","\n">>
s_value == <<"v","a","l","u","e">>
s_ipv4 == <<"i","p","v","4">>
s_null == <<"(","n","u","l","l",")">>
s_greeting == <<"g","r","e","e","t","i","n","g">>
s_network == <<"n","e","t","w","o","r","k">>
s_set_name == <<"s","e","t","_","n","a","m","e">>
s_set_address == <<"s","e","t","_","a","d","d","r","e","s","s">>
s_Another_session == <<"A","n","o","t","h","e","r"," ","s","e","s","s","i","o","n"," ","i","s"," ","a","c","t","i","v","e"," ","f","r","o","m"," ">>
s_crlf == <<"\r","\n">>
s_unknown == <<"u","n","k","n","o","w","n">>
s_No_callback_attr == <<"N","o"," ","c","a","l","l","b","a","c","k"," ","a","t","t","r","i","b","u","t","e"," ","f","o","u","n","d"," ","i","n"," ","p","a","r","s","e"," ","t","r","e","e","\n">>
s_No_handler_registered == <<"N","o"," ","h","a","n","d","l","e","r"," ","r","e","g","i","s","t","e","r","e","d"," ","f","o","r"," ","c","a","l","l","b","a","c","k",":"," ">>
s_nl == <<"\n">>
s_show_version == <<"s","h","o","w","_","v","e","r","s","i","o","n">>
s_show_name == <<"s","h","o","w","_","n","a","m","e">>
s_show_address == <<"s","h","o","w","_","a","d","d","r","e","s","s">>
s_show_run == <<"s","h","o","w","_","r","u","n">>
s_show_running_config == <<"s","h","o","w","_","r","u","n","n","i","n","g","_","c","o","n","f","i","g">>
s_write_terminal == <<"w","r","i","t","e","_","t","e","r","m","i","n","a","l">>
s_app_end == <<"a","p","p","_","e","n","d">>
s_banner == <<"E","C","L","I"," ","M","i","n","i","m","a","l"," ","E","x","a","m","p","l","e">>
s_colon == <<":">>
s_a == <<"a">>
s_b == <<"b">>
s_c == <<"c">>
s_G1 == <<"G","1">>
s_G2 == <<"G","2">>
s_prompt_minimal == <<"m","i","n","i","m","a","l",">"," ">>
s_version_100 == <<"1",".","0",".","0">>
s_sp_v == <<" ","v">>
s_dot == <<".">>
s_zone == <<"z","o","n","e">>
s_detail == <<"d","e","t","a","i","l">>
s_show_zone == <<"s","h","o","w","_","z","o","n","e">>
s_zone_detail == <<"z","o","n","e","_","d","e","t","a","i","l">>
s_fmt_one == <<"o","n","e","\n">>
s_fmt_two == <<"t","w","o"," ","{","x","}","\n">>
s_vhost == <<"v","h","o","s","t">>
s_hostname == <<"h","o","s","t","n","a","m","e">>
s_vhost_del == <<"v","h","o","s","t","_","d","e","l">>
s_Error_vhost == <<"E","r","r","o","r",":"," ","v","h","o","s","t"," ","'">>
s_not_found_nl == <<"'"," ","n","o","t"," ","f","o","u","n","d","\n">>
s_Type_help == <<"T","y","p","e"," ","'","h","e","l","p","'"," ","f","o","r"," ","c","o","m","m","a","n","d","s",","," ","T","A","B"," ","f","o","r"," ","c","o","m","p","l","e","t","i","o","n",".","\n">>
s_hand_comment == <<"#"," ","s","a","v","e","d"," ","b","y"," ","h","a","n","d","\n">>
s_note == <<" "," ","!"," ","n","o","t","e","\n">>
s_del == <<"d","e","l">>
s_del_address == <<"d","e","l","_","a","d","d","r","e","s","s">>
s_Usage_del == <<"U","s","a","g","e",":"," ","d","e","l"," ","a","d","d","r","e","s","s"," ","<","i","p","v","4",">","\n">>
s_Address_q == <<"A","d","d","r","e","s","s"," ","'">>
s_deleted == <<"'"," ","d","e","l","e","t","e","d","\n">>
s_not_found == <<"'"," ","n","o","t"," ","f","o","u","n","d"," ","(","c","o","n","f","i","g","u","r","e","d",":"," ">>
s_paren_nl == <<")","\n">>
s_No_address == <<"N","o"," ","a","d","d","r","e","s","s"," ","c","o","n","f","i","g","u","r","e","d","\n">>

(* A NULL pointer: a one-element sequence no C string is equal to. *)
NULL == <<"NULL">>

(* ------------------------------------------------------------------ *)
(* Bounds of the model.                                                *)
(* ------------------------------------------------------------------ *)
MaxDepth == 2
MaxConns == 2
MaxTokens == 2

(* ------------------------------------------------------------------ *)
(* Buffer sizes of the sources.                                        *)
(* ------------------------------------------------------------------ *)
PROMPT_SIZE == 256
CONTEXT_PATH_SIZE == 128
BASE_SIZE == 64
FULL_CMD_SIZE == 512
EDIT_CMD_SIZE == 1024
RESULT_SIZE == 4096
WRITE_BUF_SIZE == 1024
FMT_NAME_SIZE == 64
FMT_OUTPUT_SIZE == 1024
ECLI_FMT_MAX_PARAMS == 16
NAME_SIZE == 64
ADDRESS_SIZE == 32
MSG_SIZE == 128

(* ------------------------------------------------------------------ *)
(* State.                                                              *)
(* ------------------------------------------------------------------ *)
VARIABLES
    mode,            \* cli->mode: "STDIN" or "TCP"
    running,         \* *g_running
    context_stack,   \* cli->context_stack: frame names, outermost first
    context_depth,   \* cli->context_depth
    current_prompt,  \* cli->current_prompt
    g_name,          \* examples/minimal: g_name
    g_address,       \* examples/minimal: g_address
    g_cli_out_head,  \* the output registry, head first
    out,             \* what the last operation wrote: <<[to, s], ...>>
    calls,           \* the command handlers the last operation invoked
    emits,           \* the output functions the last operation invoked
    output_fmt_registry, \* ecli_yaml.c: the format overrides, head first
    use_yaml,        \* cli->use_yaml
    has_client,      \* cli->has_client
    client_bev,      \* cli->client_bev: the attached connection, 0 for NULL
    client_addr,     \* cli->client_addr
    fds,             \* the connections accepted so far: fd -> [addr, bev, state]
    config,          \* cli->config: [prompt, banner, version]
    in_loop,         \* TCP mode: event_base_loop is dispatching callbacks
    reg_calls,       \* the ecli_out_register calls made so far: [entry, alloc_ok]
    file,            \* the configuration file on disk: its lines, NULL when absent
    g_ecli_ctx,      \* g_ecli_ctx is set: ecli_init has run in this process
    cb_registry,     \* ecli_yaml.c: the name-to-handler table, head first
    use_editline,    \* cli->use_editline
    last             \* the last operation and what it decided

vars == <<mode, running, context_stack, context_depth, current_prompt,
          g_name, g_address, g_cli_out_head, out, calls, emits,
          output_fmt_registry, use_yaml, has_client, client_bev, client_addr,
          fds, config, in_loop, reg_calls, file, g_ecli_ctx, cb_registry,
          use_editline, last>>

(* ------------------------------------------------------------------ *)
(* libc string helpers.                                                *)
(* ------------------------------------------------------------------ *)
Min(a, b) == IF a < b THEN a ELSE b

(* a local variable: v is computed once and F reads the value *)
Val(v, F(_)) == CHOOSE y \in { F(x) : x \in {v} } : TRUE

(* two local variables assigned together *)
Val2(v, w, F(_, _)) == CHOOSE y \in { F(x1, x2) : x1 \in {v}, x2 \in {w} } : TRUE

(* the first n characters of s: what strncpy/strncat/snprintf keep *)
Take(s, n) == SubSeq(s, 1, Min(Len(s), n))

(* strncmp(p, s, strlen(p)) == 0 *)
IsPrefix(p, s) == Len(p) <= Len(s) /\ SubSeq(s, 1, Len(p)) = p

(* index of the first character of s at or after i that is in D, 0    *)
(* when there is none (strchr, strpbrk)                                *)
FirstIn(s, i, D) ==
    Val({ k \in i..Len(s) : s[k] \in D }, LAMBDA hit :
        IF hit = {} THEN 0 ELSE CHOOSE k \in hit : \A j \in hit : k <= j)

(* the positions where a maximal run of characters outside D starts *)
TokenStarts(s, D) ==
    { i \in 1..Len(s) : s[i] \notin D /\ (i = 1 \/ s[i - 1] \in D) }

(* the maximal run of characters outside D that starts at i *)
TokenAt(s, i, D) ==
    SubSeq(s, i, CHOOSE j \in i..Len(s) :
                    /\ \A k \in i..j : s[k] \notin D
                    /\ (j = Len(s) \/ s[j + 1] \in D))

(* strtok_r over the delimiter set D, called until it returns NULL:    *)
(* the maximal runs of non-delimiters, in order                        *)
Split(s, D) ==
    Val(TokenStarts(s, D), LAMBDA starts :
        <<>> \o [n \in 1..Cardinality(starts) |->
                   TokenAt(s, CHOOSE i \in starts :
                                 Cardinality({ j \in starts : j < i }) = n - 1, D)])

RECURSIVE Flatten(_)
(* the concatenation of a sequence of strings *)
Flatten(ss) == IF ss = <<>> THEN <<>> ELSE Head(ss) \o Flatten(Tail(ss))

(* strchr(s, c) != NULL *)
HasChar(s, c) == \E i \in 1..Len(s) : s[i] = c

(* ------------------------------------------------------------------ *)
(* The grammar collaborator (libecoli), as the sources use it.         *)
(*                                                                      *)
(* The grammar is the tree the registration macros build: a root "or"  *)
(* of leaf commands and of groups (a keyword followed by an "or" of    *)
(* subcommands), wrapped in the sh_lex tokenizer.  A command is the    *)
(* path of one leaf: its elements (keyword or typed argument) and the  *)
(* callback attribute of each grammar node on the path, outermost      *)
(* first.  Input text holds no quote characters.                       *)
(* ------------------------------------------------------------------ *)
Kw(s) == [t |-> "str", id |-> <<>>, s |-> s]
Re(id, cls) == [t |-> "re", id |-> id, s |-> <<cls>>]

NoCb == "none"

(* ECLI_DEFUN / ECLI_DEFUN_ALIAS: a leaf of the root "or"; the alias   *)
(* carries the target's callback and no callback name                  *)
Leaf(pat, cb, name) == [pat |-> pat, chain |-> <<cb>>, names |-> <<name>>]

(* ECLI_DEFUN_SUB0 / ECLI_DEFUN_SUB / ECLI_DEFUN_SET: a leaf of a group; *)
(* the group's seq node carries no callback                            *)
Sub(pat, cb, name) == [pat |-> pat, chain |-> <<NoCb, cb>>, names |-> <<NULL, name>>]

(* ECLI_DEFUN_SUB_NODE with a node expression in which an inner node   *)
(* was given a callback of its own with _cli_attr_callback: the outer  *)
(* node of the subcommand and the inner node both carry one            *)
Nested(pat, outer, outer_name, inner, inner_name) ==
    [pat |-> pat, chain |-> <<NoCb, outer, inner>>,
     names |-> <<NULL, outer_name, inner_name>>]

(* Commands of ecli_builtin.c and examples/minimal/main.c that the     *)
(* input lines reach, one application command spelled "end" registered *)
(* with ECLI_DEFUN, the "vhost del" command the ERROR HANDLING section *)
(* of ecli_cmd.h gives as the example of a failing handler, and one    *)
(* subcommand of show built with ECLI_DEFUN_SUB_NODE whose inner node  *)
(* carries a callback too.                                             *)
Commands ==
    << Leaf(<<Kw(s_quit)>>, "quit", s_quit),
       Leaf(<<Kw(s_exit)>>, "quit", NULL),
       Leaf(<<Kw(s_hello)>>, "hello", s_hello),
       Leaf(<<Kw(s_end)>>, "app_end", s_app_end),
       Sub(<<Kw(s_show), Kw(s_running_config)>>, "show_running_config", s_show_running_config),
       Sub(<<Kw(s_show), Kw(s_run)>>, "show_run", s_show_run),
       Sub(<<Kw(s_show), Kw(s_version)>>, "show_version", s_show_version),
       Sub(<<Kw(s_show), Kw(s_name)>>, "show_name", s_show_name),
       Sub(<<Kw(s_show), Kw(s_address)>>, "show_address", s_show_address),
       Nested(<<Kw(s_show), Kw(s_zone), Kw(s_detail)>>, "show_zone", s_show_zone,
              "zone_detail", s_zone_detail),
       Sub(<<Kw(s_write), Kw(s_terminal)>>, "write_terminal", s_write_terminal),
       Sub(<<Kw(s_set), Kw(s_name), Re(s_value, "NAME")>>, "set_name", s_set_name),
       Sub(<<Kw(s_set), Kw(s_address), Re(s_ipv4, "IPV4")>>, "set_address", s_set_address),
       Sub(<<Kw(s_del), Kw(s_address), Re(s_ipv4, "IPV4")>>, "del_address", s_del_address),
       Sub(<<Kw(s_vhost), Kw(s_del), Re(s_hostname, "NAME")>>, "vhost_del", s_vhost_del) >>

(* g_context_groups: the keywords ECLI_DEFUN_GROUP / ECLI_EXPORT_GROUP  *)
(* register, and "address" registered by the application through the   *)
(* public ecli_register_context_group.                                 *)
g_context_groups == {s_show, s_write, s_set, s_del, s_vhost, s_address}

(* a test that takes every word for a context group *)
is_context_group_any(keyword) == TRUE

is_context_group(keyword) == keyword \in g_context_groups

Lower == {"a","b","c","d","e","f","g","h","i","j","k","l","m",
          "n","o","p","q","r","s","t","u","v","w","x","y","z"}
Upper == {"A","B","C","D","E","F","G","H","I","J","K","L","M",
          "N","O","P","Q","R","S","T","U","V","W","X","Y","Z"}
Digits == {"0","1","2","3","4","5","6","7","8","9"}

(* the characters sh_lex skips between tokens (isspace) *)
Space == {" ", "\t", "\n", "\r"}

(* ECLI_RE_NAME "[a-zA-Z][a-zA-Z0-9_-]*" *)
MatchName(tok) ==
    /\ Len(tok) >= 1
    /\ tok[1] \in Lower \cup Upper
    /\ \A i \in 2..Len(tok) : tok[i] \in Lower \cup Upper \cup Digits \cup {"_", "-"}

(* ECLI_RE_IPV4 "[0-9]{1,3}\.[0-9]{1,3}\.[0-9]{1,3}\.[0-9]{1,3}": three  *)
(* dots, digits elsewhere, one to three digits in each field           *)
MatchIpv4(tok) ==
    \E dots \in {{ k \in 1..Len(tok) : tok[k] = "." }} :
       /\ Cardinality(dots) = 3
       /\ \A k \in 1..Len(tok) : k \in dots \/ tok[k] \in Digits
       /\ \A k \in dots \cup {0} :
             \E n \in 1..3 : /\ k + n <= Len(tok)
                             /\ \A j \in (k + 1)..(k + n) : j \notin dots
                             /\ (k + n = Len(tok) \/ k + n + 1 \in dots)

ElemMatch(e, tok) ==
    IF e.t = "str" THEN tok = e.s
    ELSE IF e.s = <<"NAME">> THEN MatchName(tok)
    ELSE MatchIpv4(tok)

(* the command c matches the whole token vector *)
Matches(c, toks) ==
    /\ Len(Commands[c].pat) = Len(toks)
    /\ \A i \in 1..Len(toks) : ElemMatch(Commands[c].pat[i], toks[i])

(* the indexes of the commands whose whole path the token vector matches *)
MatchSet(toks) == { c \in 1..Len(Commands) : Matches(c, toks) }

(* ec_parse followed by ec_pnode_matches: the "or" nodes take their    *)
(* first matching child; cmd = 0 when the line is not a complete match *)
ec_parse(str) ==
    Val(Split(str, Space), LAMBDA toks :
        [toks |-> toks,
         cmd |-> IF MatchSet(toks) = {} THEN 0
                 ELSE CHOOSE c \in 1..Len(Commands) :
                         /\ Matches(c, toks)
                         /\ \A d \in 1..(c - 1) : ~Matches(d, toks)])

ec_pnode_matches(parse) == parse.cmd # 0

(* sh_lex tokenization for completion: the token being completed is    *)
(* the last one, empty when the text is empty or ends with a space     *)
CompTokens(str) ==
    Split(str, Space)
    \o (IF str = <<>> \/ str[Len(str)] \in Space THEN << <<>> >> ELSE <<>>)

(* ec_complete + the EC_COMP_FULL | EC_COMP_PARTIAL items: the         *)
(* keywords (str nodes) that may follow the preceding tokens and start *)
(* with the last token; re nodes offer only EC_COMP_UNKNOWN items      *)
ec_complete(str) ==
    Val(CompTokens(str), LAMBDA toks :
        LET k == Len(toks)
        IN { Commands[c].pat[k].s : c \in
               { d \in 1..Len(Commands) :
                   /\ Len(Commands[d].pat) >= k
                   /\ \A i \in 1..(k - 1) : ElemMatch(Commands[d].pat[i], toks[i])
                   /\ Commands[d].pat[k].t = "str"
                   /\ IsPrefix(toks[k], Commands[d].pat[k].s) } })

(* ec_comp_count(comp, EC_COMP_FULL | EC_COMP_PARTIAL) *)
ec_comp_count(comp) == Cardinality(comp)

(* expand_single_token: the single completion of the last token, or NULL *)
expand_single_token(partial_cmd) ==
    Val(ec_complete(partial_cmd), LAMBDA comp :
        IF ec_comp_count(comp) # 1 THEN NULL ELSE CHOOSE s \in comp : TRUE)

(* a pass that adopts a completion whenever there is one, also when    *)
(* there are several                                                   *)
ExpandStep_any_candidate(token, result, expanded_any) ==
    LET partial == IF result # <<>> THEN result \o <<" ">> \o token ELSE token
        sep == IF result # <<>> THEN <<" ">> ELSE <<>>
    IN Val(ec_complete(partial), LAMBDA comp :
           LET piece == IF comp # {} THEN CHOOSE s \in comp : TRUE ELSE token
           IN [result |-> result \o sep \o piece,
               expanded_any |-> expanded_any \/ token # piece])

(* one pass of the while loop of expand_prefixes: the buffer and the   *)
(* flag after the token has been appended, expanded or as it is        *)
ExpandStep(token, result, expanded_any) ==
    LET partial == IF result # <<>> THEN result \o <<" ">> \o token ELSE token
        sep == IF result # <<>> THEN Take(<<" ">>, RESULT_SIZE - Len(result) - 1)
               ELSE <<>>
        r1 == result \o sep
    IN Val(expand_single_token(partial), LAMBDA expanded_token :
           LET piece == IF expanded_token # NULL THEN expanded_token ELSE token
           IN [result |-> r1 \o Take(piece, RESULT_SIZE - Len(r1) - 1),
               expanded_any |-> expanded_any
                                \/ (expanded_token # NULL /\ token # expanded_token)])

RECURSIVE ExpandLoop_last_only(_, _, _)
(* a loop that asks for completions of the last token only and keeps   *)
(* the tokens before it as they are                                    *)
ExpandLoop_last_only(toks, i, r) ==
    IF i > Len(toks) THEN r
    ELSE Val(IF i = Len(toks) THEN ExpandStep(toks[i], r.result, r.expanded_any)
             ELSE [result |-> (IF r.result # <<>> THEN r.result \o <<" ">> ELSE <<>>)
                              \o toks[i],
                   expanded_any |-> r.expanded_any], LAMBDA next :
             ExpandLoop_last_only(toks, i + 1, next))

RECURSIVE ExpandLoop(_, _, _)
(* the while loop of expand_prefixes over the strtok_r tokens; r holds *)
(* result and expanded_any                                             *)
ExpandLoop(toks, i, r) ==
    IF i > Len(toks) THEN r
    ELSE Val(ExpandStep(toks[i], r.result, r.expanded_any), LAMBDA next :
             ExpandLoop(toks, i + 1, next))

(* an expansion that returns its buffer without the expanded_any test *)
expand_prefixes_unconditional(cmd) ==
    IF cmd = <<>> THEN NULL
    ELSE Val(Split(cmd, {" ", "\t"}), LAMBDA toks :
             ExpandLoop(toks, 1, [result |-> <<>>, expanded_any |-> FALSE]).result)

(* expand_prefixes: the reconstructed string when a token changed, else NULL *)
expand_prefixes(cmd) ==
    IF cmd = <<>> THEN NULL
    ELSE Val(Split(cmd, {" ", "\t"}), LAMBDA toks :
         Val(ExpandLoop(toks, 1, [result |-> <<>>, expanded_any |-> FALSE]), LAMBDA r :
             IF r.expanded_any THEN r.result ELSE NULL))

(* a lookup that reads the attribute of the root node only, without the walk *)
ecli_cmd_lookup_callback_root_only(parse) == Commands[parse.cmd].chain[1]

(* the ECLI_CB_ATTR attributes on the path of command c in the grammar *)
(* of the session: the registration macros set them on the compiled-in *)
(* grammar; a grammar ec_yaml_import built holds the attributes of the *)
(* YAML file, the callback names, and no function pointer              *)
cli_callback(c) ==
    IF use_yaml THEN [i \in 1..Len(Commands[c].chain) |-> NoCb]
    ELSE Commands[c].chain

(* ecli_cmd_lookup_callback: EC_PNODE_FOREACH walks the parse tree in  *)
(* pre-order and the first callback attribute found is returned        *)
ecli_cmd_lookup_callback(parse) ==
    LET chain == cli_callback(parse.cmd)
        hit == { i \in 1..Len(chain) : chain[i] # NoCb }
    IN IF hit = {} THEN NoCb ELSE chain[CHOOSE i \in hit : \A j \in hit : i <= j]

(* ecli_arg_str: the token matched by the node whose id is given, or NULL *)
ecli_arg_str(parse, id) ==
    LET pat == Commands[parse.cmd].pat
        hit == { i \in 1..Len(pat) : pat[i].id = id /\ id # <<>> }
    IN IF hit = {} THEN NULL ELSE parse.toks[CHOOSE i \in hit : TRUE]

(* cli->config after ecli_init_common *)
config_prompt == config.prompt
config_banner == config.banner
config_version == config.version

(* destination of a write in STDIN mode *)
STDOUT == 0

(* ------------------------------------------------------------------ *)
(* Context stack manager.                                              *)
(* ------------------------------------------------------------------ *)
RECURSIVE JoinWith(_, _)
(* the names joined by sep, as the TAILQ_FOREACH loops build them *)
JoinWith(names, sep) ==
    IF names = <<>> THEN <<>>
    ELSE IF Len(names) = 1 THEN names[1]
    ELSE names[1] \o sep \o JoinWith(Tail(names), sep)

(* a prompt that strips the last character of the base only, and only  *)
(* when it is a glyph                                                  *)
ecli_update_prompt_one_glyph(stack, depth) ==
    IF depth = 0
    THEN Take(config_prompt, PROMPT_SIZE - 1)
    ELSE LET base0 == Take(config_prompt, BASE_SIZE - 1)
             len == Len(base0)
             base == IF len >= 1 /\ base0[len] \in {">", "#"}
                     THEN Take(base0, len - 1) ELSE base0
         IN Take(Take(base, BASE_SIZE - 5) \o <<"(">>
                 \o Take(JoinWith(stack, <<"-">>), CONTEXT_PATH_SIZE - 1)
                 \o <<")", ">", " ">>, PROMPT_SIZE - 1)

(* ecli_update_prompt: the prompt for a stack and its recorded depth *)
ecli_update_prompt(stack, depth) ==
    IF depth = 0
    THEN Take(config_prompt, PROMPT_SIZE - 1)
    ELSE LET context_path == Take(JoinWith(stack, <<"-">>), CONTEXT_PATH_SIZE - 1)
             base0 == Take(config_prompt, BASE_SIZE - 1)
             len == Len(base0)
             base == IF len >= 2 /\ base0[len - 1] \in {">", "#"}
                     THEN Take(base0, len - 2)
                     ELSE IF len >= 1 /\ base0[len] \in {">", "#"}
                          THEN Take(base0, len - 1)
                          ELSE base0
         IN Take(Take(base, BASE_SIZE - 5) \o <<"(">>
                 \o Take(context_path, CONTEXT_PATH_SIZE)
                 \o <<")", ">", " ">>, PROMPT_SIZE - 1)

(* an enter that counts the frame before it has allocated it *)
ecli_enter_context_counts_first(stack, depth, context, alloc_ok) ==
    IF ~alloc_ok
    THEN [stack |-> stack, depth |-> depth + 1, ret |-> -1, updated |-> FALSE]
    ELSE [stack |-> Append(stack, context), depth |-> depth + 1, ret |-> 0,
          updated |-> TRUE]

(* ecli_enter_context: push a frame; nothing changes when malloc fails *)
ecli_enter_context(stack, depth, context, alloc_ok) ==
    IF ~alloc_ok
    THEN [stack |-> stack, depth |-> depth, ret |-> -1, updated |-> FALSE]
    ELSE [stack |-> Append(stack, context), depth |-> depth + 1, ret |-> 0,
          updated |-> TRUE]

(* an exit that unlinks TAILQ_FIRST, the outermost frame *)
ecli_exit_context_first(stack, depth) ==
    IF depth = 0
    THEN [stack |-> stack, depth |-> depth, ret |-> -1, updated |-> FALSE,
          texts |-> <<s_Already_top>>]
    ELSE IF stack # <<>>
         THEN [stack |-> Tail(stack), depth |-> depth - 1,
               ret |-> 0, updated |-> TRUE, texts |-> <<>>]
         ELSE [stack |-> stack, depth |-> depth, ret |-> 0, updated |-> TRUE,
               texts |-> <<>>]

(* ecli_exit_context: remove the last frame, or report the top level *)
ecli_exit_context(stack, depth) ==
    IF depth = 0
    THEN [stack |-> stack, depth |-> depth, ret |-> -1, updated |-> FALSE,
          texts |-> <<s_Already_top>>]
    ELSE IF stack # <<>>
         THEN [stack |-> SubSeq(stack, 1, Len(stack) - 1), depth |-> depth - 1,
               ret |-> 0, updated |-> TRUE, texts |-> <<>>]
         ELSE [stack |-> stack, depth |-> depth, ret |-> 0, updated |-> TRUE,
               texts |-> <<>>]

(* an exit-all that frees one frame only *)
ecli_exit_all_contexts_one(stack, depth) ==
    IF stack = <<>> THEN [stack |-> stack, depth |-> depth]
    ELSE [stack |-> SubSeq(stack, 1, Len(stack) - 1), depth |-> depth - 1]

(* ecli_exit_all_contexts: free every frame and reset the depth *)
ecli_exit_all_contexts(stack, depth) ==
    [stack |-> <<>>, depth |-> 0]

(* a flattening that walks the stack innermost first (TAILQ_FOREACH_REVERSE) *)
ecli_build_full_command_reverse(stack, depth, line, size) ==
    IF depth = 0 THEN Take(line, size - 1)
    ELSE Take(Flatten([i \in 1..Len(stack) |-> stack[Len(stack) + 1 - i] \o <<" ">>])
              \o line, size - 1)

(* ecli_build_full_command: the line at depth 0, else every frame name *)
(* followed by a space, then the line, cut to the buffer size          *)
ecli_build_full_command(stack, depth, line, size) ==
    IF depth = 0 THEN Take(line, size - 1)
    ELSE Take(Flatten([i \in 1..Len(stack) |-> stack[i] \o <<" ">>]) \o line, size - 1)

(* ------------------------------------------------------------------ *)
(* Output / config registry.                                           *)
(* ------------------------------------------------------------------ *)
OutEntry(name, group, default_fmt, func, priority) ==
    [name |-> name, group |-> group, default_fmt |-> default_fmt,
     func |-> func, priority |-> priority]

(* a registration that links the new entry at the tail, unsorted *)
ecli_out_register_tail(head, entry, alloc_ok) ==
    IF ~alloc_ok THEN head ELSE Append(head, entry)

(* a registration whose walk stops at the first entry of equal priority *)
ecli_out_register_strict(head, entry, alloc_ok) ==
    IF ~alloc_ok THEN head
    ELSE LET k == CHOOSE n \in 0..Len(head) :
                    /\ \A i \in 1..n : head[i].priority < entry.priority
                    /\ (n = Len(head) \/ head[n + 1].priority >= entry.priority)
         IN SubSeq(head, 1, k) \o <<entry>> \o SubSeq(head, k + 1, Len(head))

(* a registration that keeps the bindings of a group together: the new *)
(* entry goes behind the last entry of its group when there is one     *)
ecli_out_register_by_group(head, entry, alloc_ok) ==
    IF ~alloc_ok THEN head
    ELSE LET same == { i \in 1..Len(head) : head[i].group = entry.group }
             k == IF same # {} THEN CHOOSE i \in same : \A j \in same : j <= i
                  ELSE CHOOSE n \in 0..Len(head) :
                          /\ \A i \in 1..n : head[i].priority <= entry.priority
                          /\ (n = Len(head) \/ head[n + 1].priority > entry.priority)
         IN SubSeq(head, 1, k) \o <<entry>> \o SubSeq(head, k + 1, Len(head))

(* ecli_out_register: walk past every entry whose priority is <= the   *)
(* new one and link the new entry there; a failed calloc changes nothing *)
ecli_out_register(head, entry, alloc_ok) ==
    IF ~alloc_ok THEN head
    ELSE LET k == CHOOSE n \in 0..Len(head) :
                    /\ \A i \in 1..n : head[i].priority <= entry.priority
                    /\ (n = Len(head) \/ head[n + 1].priority > entry.priority)
         IN SubSeq(head, 1, k) \o <<entry>> \o SubSeq(head, k + 1, Len(head))

(* ecli_yaml_register_output_fmt: an entry of that name gets a copy of *)
(* the new format (NULL when strdup fails); otherwise a new entry is   *)
(* linked at the head unless an allocation fails.  [registry, ret]     *)
ecli_yaml_register_output_fmt(registry, callback_name, fmt, alloc_ok) ==
    LET hit == { i \in 1..Len(registry) : registry[i].callback_name = callback_name }
    IN IF callback_name = NULL \/ fmt = NULL THEN [registry |-> registry, ret |-> -1]
       ELSE IF hit # {}
       THEN [registry |-> [registry EXCEPT ![CHOOSE i \in hit : \A j \in hit : i <= j].fmt =
                                               IF alloc_ok THEN fmt ELSE NULL],
             ret |-> IF alloc_ok THEN 0 ELSE -1]
       ELSE IF ~alloc_ok THEN [registry |-> registry, ret |-> -1]
       ELSE [registry |-> <<[callback_name |-> callback_name, fmt |-> fmt]>> \o registry,
             ret |-> 0]

RECURSIVE parse_output_formats(_, _, _, _)
(* parse_output_formats: every key of the output_formats section is    *)
(* registered with its value, in the order of the file, from pair i on; *)
(* a file that cannot be opened registers nothing                      *)
parse_output_formats(registry, fp, i, alloc_ok) ==
    IF ~fp.opened \/ i > Len(fp.pairs) THEN registry
    ELSE Val(ecli_yaml_register_output_fmt(registry, fp.pairs[i].key,
                                           fp.pairs[i].value, alloc_ok).registry,
             LAMBDA next : parse_output_formats(next, fp, i + 1, alloc_ok))

(* ecli_yaml_get_output_fmt: the override registered under the name, or NULL *)
ecli_yaml_get_output_fmt(callback_name) ==
    LET hit == { i \in 1..Len(output_fmt_registry) :
                   output_fmt_registry[i].callback_name = callback_name }
    IN IF callback_name = NULL \/ hit = {} THEN NULL
       ELSE output_fmt_registry[CHOOSE i \in hit : \A j \in hit : i <= j].fmt

(* a lookup that ignores the overrides *)
ecli_out_get_fmt_default(name, default_fmt) == default_fmt

(* ecli_out_get_fmt: YAML override or default *)
ecli_out_get_fmt(name, default_fmt) ==
    LET yaml_fmt == ecli_yaml_get_output_fmt(name)
    IN IF yaml_fmt # NULL THEN yaml_fmt ELSE default_fmt

DigitChar(d) == <<"0", "1", "2", "3", "4", "5", "6", "7", "8", "9">>[d + 1]

RECURSIVE DecStr(_)
(* the text of %u *)
DecStr(n) == IF n < 10 THEN <<DigitChar(n)>> ELSE DecStr(n \div 10) \o <<DigitChar(n % 10)>>

(* the text of %d and %ld *)
SignedStr(n) == IF n < 0 THEN <<"-">> \o DecStr(0 - n) ELSE DecStr(n)

(* a parameter of ecli_out_fmt: the name, the type tag and the union,  *)
(* of which str holds a string and num the value of an integer type    *)
FmtParam(name, type, str, num) ==
    [name |-> name, type |-> type, val |-> str, num |-> num]

(* a parameter conversion that prints every value as a string *)
ParamText_str(param) == IF param.val = NULL THEN s_null ELSE param.val

(* the text snprintf produces for one parameter of ecli_out_fmt *)
ParamText(param) ==
    IF param.type = "ECLI_FMT_STR"
    THEN (IF param.val = NULL THEN s_null ELSE param.val)
    ELSE IF param.type \in {"ECLI_FMT_INT", "ECLI_FMT_LONG"} THEN SignedStr(param.num)
    ELSE IF param.type \in {"ECLI_FMT_UINT", "ECLI_FMT_ULONG"} THEN DecStr(param.num)
    ELSE <<>>

(* out_end: the last byte of the buffer char output[1024] *)
out_end == FMT_OUTPUT_SIZE - 1

RECURSIVE FmtLoop(_, _, _, _, _)
(* the substitution loop of ecli_out_fmt: p is the position in fmt,    *)
(* cur the write cursor (out - output) and output the text the buffer  *)
(* holds.  The characters up to the next "{" that has a closing "}"    *)
(* are copied one by one, then the placeholder is replaced by its      *)
(* parameter (snprintf keeps what fits and returns the whole length,   *)
(* by which the cursor advances) or copied as it is.  [output, out]    *)
FmtLoop(fmt, p, cur, output, params) ==
    IF p > Len(fmt) \/ cur >= out_end THEN [output |-> output, out |-> cur]
    ELSE LET open == FirstIn(fmt, p, {"{"})
             end == IF open = 0 THEN 0 ELSE FirstIn(fmt, open + 1, {"}"})
             lit == Take(SubSeq(fmt, p, (IF end = 0 THEN Len(fmt) ELSE open - 1)),
                         out_end - cur)
             at == cur + Len(lit)
             name_buf == SubSeq(fmt, open + 1, end - 1)
             hit == { i \in 1..Len(params) : params[i].name = name_buf }
             found == Len(name_buf) < FMT_NAME_SIZE /\ hit # {}
             text == ParamText(params[CHOOSE i \in hit : \A j \in hit : i <= j])
             raw == Take(SubSeq(fmt, open, end), out_end - at)
         IN IF end = 0 \/ at >= out_end
            THEN [output |-> output \o lit, out |-> at]
            ELSE IF found
            THEN Val2(at + Len(text), output \o lit \o Take(text, out_end - at - 1),
                      LAMBDA o, buf : FmtLoop(fmt, end + 1, o, buf, params))
            ELSE Val2(at + Len(raw), output \o lit \o raw,
                      LAMBDA o, buf : FmtLoop(fmt, open + Len(raw), o, buf, params))

(* the buffer and the cursor ecli_out_fmt ends with *)
FmtRun(fmt, params) == FmtLoop(fmt, 1, 0, <<>>, Take(params, ECLI_FMT_MAX_PARAMS))

(* ecli_out_fmt: the one string it hands to ECLI_OUT; nothing for a NULL fmt *)
ecli_out_fmt(fmt, params) ==
    IF fmt = NULL THEN <<>> ELSE <<FmtRun(fmt, params).output>>

(* the output functions: ECLI_DEFUN_OUT(set, name), ECLI_DEFUN_OUT(set, *)
(* address) of examples/minimal, and an output function that always    *)
(* prints its format                                                   *)
RunOut(cli, func, fmt) ==
    IF func = "_out_set_name"
    THEN (IF cli.g_name # s_world
          THEN ecli_out_fmt(fmt, <<FmtParam(s_value, "ECLI_FMT_STR", cli.g_name, 0)>>)
          ELSE <<>>)
    ELSE IF func = "_out_set_address"
    THEN (IF cli.g_address # <<>>
          THEN ecli_out_fmt(fmt, <<FmtParam(s_ipv4, "ECLI_FMT_STR", cli.g_address, 0)>>)
          ELSE <<>>)
    ELSE ecli_out_fmt(fmt, <<>>)

RECURSIVE DumpLoop(_, _, _, _)
(* the for loop of ecli_dump_running_config from entry i on:           *)
(* [texts, emits, fmts] written, invoked and handed to the output      *)
(* functions, current_group carried along                              *)
DumpLoop(cli, head, i, current_group) ==
    IF i > Len(head)
    THEN [texts |-> IF current_group # NULL
                    THEN <<s_bang_end_sp \o current_group \o s_nl>> ELSE <<>>,
          emits |-> <<>>, fmts |-> <<>>]
    ELSE LET e == head[i]
             changed == e.group # NULL /\ (current_group = NULL \/ current_group # e.group)
             sep == IF changed
                    THEN (IF current_group # NULL
                          THEN <<s_bang_end_sp \o current_group \o s_nl>> ELSE <<>>)
                         \o <<s_bang_sp \o e.group \o s_configuration_nl>>
                    ELSE <<>>
             fmt == ecli_out_get_fmt(e.name, e.default_fmt)
             body == IF e.func # NoCb THEN RunOut(cli, e.func, fmt) ELSE <<>>
         IN Val2(i + 1, IF changed THEN e.group ELSE current_group, LAMBDA j, group :
            Val(DumpLoop(cli, head, j, group), LAMBDA rest :
                [texts |-> sep \o body \o rest.texts,
                 emits |-> (IF e.func # NoCb THEN <<e.name>> ELSE <<>>) \o rest.emits,
                 fmts |-> (IF e.func # NoCb THEN <<fmt>> ELSE <<>>) \o rest.fmts]))

(* a dump that closes the last group and stops, without the footer *)
ecli_dump_running_config_no_footer(cli, head) ==
    Val(DumpLoop(cli, head, 1, NULL), LAMBDA d :
        [texts |-> <<s_dump_header, s_bang_nl>> \o d.texts, emits |-> d.emits,
         fmts |-> d.fmts])

(* ecli_dump_running_config: header, the groups, footer *)
ecli_dump_running_config(cli, head) ==
    Val(DumpLoop(cli, head, 1, NULL), LAMBDA d :
        [texts |-> <<s_dump_header, s_bang_nl>> \o d.texts \o <<s_bang_nl, s_bang_end_nl>>,
         emits |-> d.emits, fmts |-> d.fmts])

(* ------------------------------------------------------------------ *)
(* Session output.                                                     *)
(* ------------------------------------------------------------------ *)
(* ecli_write: to stdout in STDIN mode, to the attached client in TCP  *)
(* mode, nowhere when no client is attached; vsnprintf cuts to the buffer *)
ecli_write_on(bev, text) ==
    IF mode = "STDIN" THEN <<[to |-> STDOUT, s |-> Take(text, WRITE_BUF_SIZE - 1)]>>
    ELSE IF bev # 0
         THEN <<[to |-> bev, s |-> Take(text, WRITE_BUF_SIZE - 1)]>>
         ELSE <<>>

(* ecli_write on the session as it stands *)
ecli_write(text) == ecli_write_on(client_bev, text)

(* ecli_output: format into its own buffer, then ecli_write *)
ecli_output(text) == ecli_write(Take(text, WRITE_BUF_SIZE - 1))

(* ecli_err: the message behind "Error: " *)
ecli_err(text) == ecli_write(s_Error \o Take(text, WRITE_BUF_SIZE - 1))

RECURSIVE WriteAll(_)
(* one ecli_output per text *)
WriteAll(texts) ==
    IF texts = <<>> THEN <<>> ELSE ecli_output(Head(texts)) \o WriteAll(Tail(texts))

(* ------------------------------------------------------------------ *)
(* Command handlers.                                                   *)
(* ------------------------------------------------------------------ *)
(* the session and application state a line is processed in *)
Session ==
    [context_stack |-> context_stack, context_depth |-> context_depth,
     current_prompt |-> current_prompt, g_name |-> g_name,
     g_address |-> g_address, running |-> running]

HandlerResult(name, address, run, writes, emitted, ret) ==
    [g_name |-> name, g_address |-> address, running |-> run,
     writes |-> writes, emits |-> emitted, ret |-> ret, calls |-> <<>>]

(* the body of the handler cb for the parse tree: the application state *)
(* it leaves, what it writes and what it returns                       *)
RunHandler(cli, cb, parse) ==
    LET same(writes) ==
            HandlerResult(cli.g_name, cli.g_address, cli.running, writes, <<>>, 0)
    IN IF cb = "quit"
       THEN HandlerResult(cli.g_name, cli.g_address, FALSE,
                          ecli_output(s_Goodbye), <<>>, 0)
       ELSE IF cb = "hello"
       THEN same(ecli_output(s_Hello \o cli.g_name \o s_bang_nl))
       ELSE IF cb \in {"show_running_config", "show_run", "write_terminal"}
       THEN Val(ecli_dump_running_config(cli, g_cli_out_head), LAMBDA d :
                HandlerResult(cli.g_name, cli.g_address, cli.running,
                              WriteAll(d.texts), d.emits, 0))
       ELSE IF cb = "show_version"
       THEN same(WriteAll(<<s_libecli_version \o s_ECLI_VERSION \o s_nl,
                            s_copyright, s_spdx>>))
       ELSE IF cb = "show_name"
       THEN same(ecli_output(s_Name \o cli.g_name \o s_nl))
       ELSE IF cb = "show_address"
       THEN same(IF cli.g_address # <<>>
                 THEN ecli_output(s_Address \o cli.g_address \o s_nl)
                 ELSE ecli_output(s_Address_none))
       ELSE IF cb = "set_name"
       THEN LET value == ecli_arg_str(parse, s_value)
                new == Take(value, NAME_SIZE - 1)
            IN IF value # NULL
               THEN HandlerResult(new, cli.g_address, cli.running,
                                  ecli_output(s_Name_set \o new \o s_quote_nl), <<>>, 0)
               ELSE same(<<>>)
       ELSE IF cb = "set_address"
       THEN LET value == ecli_arg_str(parse, s_ipv4)
                new == Take(value, ADDRESS_SIZE - 1)
            IN IF value # NULL
               THEN HandlerResult(cli.g_name, new, cli.running,
                                  ecli_output(s_Address_set \o new \o s_quote_nl), <<>>, 0)
               ELSE same(<<>>)
       ELSE IF cb = "del_address"
       THEN LET value == ecli_arg_str(parse, s_ipv4)
            IN IF value = NULL THEN same(ecli_output(s_Usage_del))
               ELSE IF cli.g_address # <<>> /\ cli.g_address = value
               THEN HandlerResult(cli.g_name, <<>>, cli.running,
                                  ecli_output(s_Address_q \o cli.g_address \o s_deleted),
                                  <<>>, 0)
               ELSE IF cli.g_address # <<>>
               THEN same(ecli_output(s_Address_q \o value \o s_not_found
                                     \o cli.g_address \o s_paren_nl))
               ELSE same(ecli_output(s_No_address))
       ELSE IF cb = "vhost_del"
       THEN (* the application holds no vhost: vhost_exists is false *)
            HandlerResult(cli.g_name, cli.g_address, cli.running,
                          ecli_output(s_Error_vhost \o ecli_arg_str(parse, s_hostname)
                                      \o s_not_found_nl), <<>>, -1)
       ELSE same(<<>>)

(* ------------------------------------------------------------------ *)
(* Dispatch table.                                                     *)
(* ------------------------------------------------------------------ *)
(* the table the ecli_yaml_register calls of the registration macros   *)
(* leave: one entry per named leaf, each inserted at the head          *)
StartupCallbacks ==
    LET named == { c \in 1..Len(Commands) :
                     Commands[c].names[Len(Commands[c].names)] # NULL }
    IN <<>> \o [n \in 1..Cardinality(named) |->
                 LET c == CHOOSE d \in named :
                              Cardinality({ e \in named : e > d }) = n - 1
                 IN [name |-> Commands[c].names[Len(Commands[c].names)],
                     callback |-> Commands[c].chain[Len(Commands[c].chain)]]]

(* a registration that keeps the handler a name already has *)
ecli_yaml_register_first_wins(registry, name, callback, alloc_ok) ==
    IF name = NULL \/ callback = NoCb THEN [registry |-> registry, ret |-> -1]
    ELSE IF \E i \in 1..Len(registry) : registry[i].name = name
    THEN [registry |-> registry, ret |-> 0]
    ELSE IF ~alloc_ok THEN [registry |-> registry, ret |-> -1]
    ELSE [registry |-> <<[name |-> name, callback |-> callback]>> \o registry, ret |-> 0]

(* ecli_yaml_register: the table it leaves and the value it returns;   *)
(* an entry of that name is overwritten, a new one goes to the head    *)
ecli_yaml_register(registry, name, callback, alloc_ok) ==
    LET hit == { i \in 1..Len(registry) : registry[i].name = name }
    IN IF name = NULL \/ callback = NoCb THEN [registry |-> registry, ret |-> -1]
       ELSE IF hit # {}
       THEN [registry |-> [registry EXCEPT
                             ![CHOOSE i \in hit : \A j \in hit : i <= j].callback
                                 = callback],
             ret |-> 0]
       ELSE IF ~alloc_ok THEN [registry |-> registry, ret |-> -1]
       ELSE [registry |-> <<[name |-> name, callback |-> callback]>> \o registry,
             ret |-> 0]

(* a lookup that returns the handler at the head of the table *)
lookup_callback_head(name) ==
    IF name = NULL \/ cb_registry = <<>> THEN NoCb ELSE cb_registry[1].callback

(* lookup_callback of ecli_yaml.c: the first entry of that name *)
lookup_callback(name) ==
    LET hit == { i \in 1..Len(cb_registry) : cb_registry[i].name = name }
    IN IF name = NULL \/ hit = {} THEN NoCb
       ELSE cb_registry[CHOOSE i \in hit : \A j \in hit : i <= j].callback

(* ecli_yaml_get_callback_name: the first callback-name attribute of the walk *)
ecli_yaml_get_callback_name(parse) ==
    LET names == Commands[parse.cmd].names
        hit == { i \in 1..Len(names) : names[i] # NULL }
    IN IF hit = {} THEN NULL ELSE names[CHOOSE i \in hit : \A j \in hit : i <= j]

(* a handler that was not run: the state is left alone *)
NotRun(cli, writes) ==
    HandlerResult(cli.g_name, cli.g_address, cli.running, writes, <<>>, -1)

(* a handler that was run, recorded in calls *)
Ran(cli, cb, parse) == [RunHandler(cli, cb, parse) EXCEPT !.calls = <<cb>>]

(* ecli_yaml_dispatch *)
ecli_yaml_dispatch(cli, parse) ==
    LET cb_name == ecli_yaml_get_callback_name(parse)
        callback == lookup_callback(cb_name)
    IN IF cb_name = NULL THEN NotRun(cli, ecli_err(s_No_callback_attr))
       ELSE IF callback = NoCb
            THEN NotRun(cli, ecli_err(s_No_handler_registered \o cb_name \o s_nl))
            ELSE Ran(cli, callback, parse)

(* a dispatch that runs the handler again when it reported a failure *)
Dispatch_retry(cli, parse) ==
    LET cb == ecli_cmd_lookup_callback(parse)
        h == Ran(cli, cb, parse)
    IN IF use_yaml THEN ecli_yaml_dispatch(cli, parse)
       ELSE IF cb = NoCb THEN NotRun(cli, <<>>)
       ELSE IF h.ret < 0 THEN [h EXCEPT !.calls = <<cb, cb>>, !.writes = h.writes \o h.writes]
       ELSE h

(* the dispatch of process_line: symbolic when use_yaml, else direct *)
Dispatch(cli, parse) ==
    IF use_yaml THEN ecli_yaml_dispatch(cli, parse)
    ELSE LET cb == ecli_cmd_lookup_callback(parse)
         IN IF cb # NoCb THEN Ran(cli, cb, parse) ELSE NotRun(cli, <<>>)

(* ------------------------------------------------------------------ *)
(* Command resolver.                                                   *)
(* ------------------------------------------------------------------ *)
RECURSIVE LTrim(_)
(* the leading spaces and tabs are skipped *)
LTrim(s) == IF s # <<>> /\ s[1] \in {" ", "\t"} THEN LTrim(Tail(s)) ELSE s

RECURSIVE RTrim(_)
(* trailing \n, \r and spaces are cut while end > line: the first      *)
(* character of the line is never removed                             *)
RTrim(s) ==
    IF Len(s) > 1 /\ s[Len(s)] \in {"\n", "\r", " "}
    THEN RTrim(SubSeq(s, 1, Len(s) - 1)) ELSE s

(* the resolution of one raw line in a session with the given stack:   *)
(* which terminal state process_line reaches and on what.  env names   *)
(* the allocation the environment lets fail, if any.                   *)
Resolve(stack, depth, raw, env) ==
    LET line == RTrim(LTrim(raw))
    IN Val(ecli_build_full_command(stack, depth, line, FULL_CMD_SIZE), LAMBDA full_cmd :
       Val2(ec_parse(full_cmd), expand_prefixes(full_cmd), LAMBDA parse, expanded :
           LET exp_parse == IF expanded = NULL THEN parse ELSE ec_parse(expanded)
               R(kind, fc, ex, pr) ==
                   [kind |-> kind, line |-> line, full_cmd |-> fc, expanded |-> ex,
                    parse |-> pr]
               none == [toks |-> <<>>, cmd |-> 0]
           IN IF line = <<>> THEN R("empty", NULL, NULL, none)
              ELSE IF line = s_end THEN R("end", NULL, NULL, none)
              ELSE IF line = s_exit /\ depth > 0 THEN R("exit", NULL, NULL, none)
              ELSE IF env = "parse_null" THEN R("parse_error", full_cmd, NULL, none)
              ELSE IF ec_pnode_matches(parse) THEN R("dispatch", full_cmd, NULL, parse)
              ELSE IF /\ expanded # NULL
                      /\ env # "exp_parse_null"
                      /\ ec_pnode_matches(exp_parse)
                   THEN R("dispatch", full_cmd, expanded, exp_parse)
              ELSE IF ~HasChar(line, " ") /\ is_context_group(line)
                   THEN R("enter", full_cmd, expanded, none)
              ELSE R("unknown", full_cmd, expanded, none)))

(* the context operation of a resolved line: the stack and depth it leaves *)
ContextStep(cli, res, env) ==
    IF res.kind = "end"
    THEN ecli_exit_all_contexts(cli.context_stack, cli.context_depth)
         @@ [updated |-> TRUE, texts |-> <<>>]
    ELSE IF res.kind = "exit"
    THEN ecli_exit_context(cli.context_stack, cli.context_depth)
    ELSE IF res.kind = "enter"
    THEN ecli_enter_context(cli.context_stack, cli.context_depth, res.line,
                            env # "enter_nomem") @@ [texts |-> <<>>]
    ELSE [stack |-> cli.context_stack, depth |-> cli.context_depth,
          updated |-> FALSE, texts |-> <<>>]

(* what process_line writes before the prompt *)
Said(res, ctx, h) ==
    IF res.kind = "parse_error" THEN ecli_err(s_Parse_error)
    ELSE IF res.kind = "unknown"
    THEN ecli_err(s_Unknown_command \o res.line \o s_nl)
    ELSE IF res.kind = "dispatch"
    THEN h.writes \o (IF h.ret < 0 THEN ecli_err(s_No_handler) ELSE <<>>)
    ELSE WriteAll(ctx.texts)

(* process_line: the whole handler of one input line, from the session *)
(* cli: the session it leaves, what it wrote and what it invoked       *)
process_line(cli, raw, env) ==
    Val(Resolve(cli.context_stack, cli.context_depth, raw, env), LAMBDA res :
    Val(IF res.kind = "dispatch" THEN Dispatch(cli, res.parse)
        ELSE NotRun(cli, <<>>), LAMBDA h :
        LET ctx == ContextStep(cli, res, env)
            prompt == IF ctx.updated THEN ecli_update_prompt(ctx.stack, ctx.depth)
                      ELSE cli.current_prompt
        IN [context_stack |-> ctx.stack, context_depth |-> ctx.depth,
            current_prompt |-> prompt, g_name |-> h.g_name,
            g_address |-> h.g_address, running |-> h.running,
            out |-> Said(res, ctx, h) \o ecli_write(prompt),
            calls |-> h.calls, emits |-> h.emits, res |-> res]))

(* ------------------------------------------------------------------ *)
(* The editline loop.                                                  *)
(* ------------------------------------------------------------------ *)
(* one pass of the while loop of editline_interact_with_expansion on   *)
(* the line ec_editline_gets returned: the application state it        *)
(* leaves, what the handler wrote, what was invoked.  The callback is  *)
(* looked up with ecli_cmd_lookup_callback on both paths and its       *)
(* return value is dropped; the context and the prompt are not touched. *)
editline_line(cli, raw, env) ==
    LET trimmed == LTrim(raw)
        text == IF trimmed # <<>> /\ raw[Len(raw)] = "\n"
                THEN SubSeq(trimmed, 1, Len(trimmed) - 1) ELSE trimmed
        none == [toks |-> <<>>, cmd |-> 0]
        E(kind, pr, h) ==
            [kind |-> kind, parse |-> pr, g_name |-> h.g_name,
             g_address |-> h.g_address, running |-> h.running, out |-> h.writes,
             calls |-> h.calls, emits |-> h.emits]
        run(pr) == IF ecli_cmd_lookup_callback(pr) # NoCb
                   THEN Ran(cli, ecli_cmd_lookup_callback(pr), pr)
                   ELSE NotRun(cli, <<>>)
    IN IF trimmed = <<>> \/ trimmed[1] = "\n" THEN E("skipped", none, NotRun(cli, <<>>))
       ELSE Val(ecli_build_full_command(cli.context_stack, cli.context_depth, text,
                                        EDIT_CMD_SIZE), LAMBDA full_cmd :
            Val2(ec_parse(full_cmd), expand_prefixes(full_cmd), LAMBDA parse, expanded :
                IF env = "parse_null" THEN E("parse_error", none, NotRun(cli, <<>>))
                ELSE IF ec_pnode_matches(parse) THEN E("dispatch", parse, run(parse))
                ELSE IF expanded # NULL /\ ec_pnode_matches(ec_parse(expanded))
                THEN E("dispatch", ec_parse(expanded), run(ec_parse(expanded)))
                ELSE E("unknown", none, NotRun(cli, <<>>))))

(* ------------------------------------------------------------------ *)
(* Configuration replay.                                               *)
(* ------------------------------------------------------------------ *)
(* the lines fgets hands out of a stream: each up to and including its *)
(* "\n", the last one as far as the end of the stream; no line of the  *)
(* files read here reaches the sizeof(line) - 1 characters of the buffer *)
fgets(content) ==
    Val({ i \in 1..Len(content) : content[i] = "\n" \/ i = Len(content) }, LAMBDA ends :
        <<>> \o [n \in 1..Cardinality(ends) |->
                   LET e == CHOOSE i \in ends : Cardinality({ j \in ends : j < i }) = n - 1
                       before == { j \in ends : j < e }
                       b == IF before = {} THEN 1
                            ELSE 1 + CHOOSE i \in before : \A j \in before : j <= i
                   IN SubSeq(content, b, e)])

RECURSIVE TrimEnd(_)
(* trailing \n, \r, spaces and tabs are cut while end > p: the first    *)
(* character left at p is never removed                               *)
TrimEnd(p) ==
    IF Len(p) > 1 /\ p[Len(p)] \in {"\n", "\r", " ", "\t"}
    THEN TrimEnd(SubSeq(p, 1, Len(p) - 1)) ELSE p

(* the text at p once a line of the file has been trimmed *)
ConfigLine(line) == TrimEnd(LTrim(line))

(* a test that skips the empty lines only *)
Skipped_empty_only(p) == p = <<>>

(* the test of the two "continue" statements: empty, or a comment *)
Skipped(p) == p = <<>> \/ p[1] \in {"!", "#"}

(* execute_command: the line behind the context prefix is parsed and   *)
(* dispatched; nothing is expanded, entered or prompted.  The result   *)
(* is the handler's, with the failure it reports on stderr.            *)
execute_command(cli, line, env) ==
    Val(ec_parse(ecli_build_full_command(cli.context_stack, cli.context_depth, line,
                                         FULL_CMD_SIZE)), LAMBDA parse :
        IF env = "parse_null"
        THEN NotRun(cli, <<>>) @@ [why |-> "parse error", parse |-> parse]
        ELSE IF ~ec_pnode_matches(parse)
        THEN NotRun(cli, <<>>) @@ [why |-> "unknown command", parse |-> parse]
        ELSE Val(Dispatch(cli, parse), LAMBDA h :
                 h @@ [why |-> IF h.ret < 0 THEN "command failed" ELSE "ok",
                       parse |-> parse]))

(* one pass of the while loop of ecli_load_config on a line that is    *)
(* not skipped: the session, the counters and the lines reported       *)
LoadStep(acc, line_num, p, env) ==
    Val(execute_command(acc, p, env), LAMBDA r :
        [acc EXCEPT !.g_name = r.g_name, !.g_address = r.g_address,
                    !.running = r.running,
                    !.out = acc.out \o r.writes,
                    !.calls = acc.calls \o r.calls,
                    !.emits = acc.emits \o r.emits,
                    !.cmd_count = acc.cmd_count + 1,
                    !.error_count = acc.error_count + (IF r.ret < 0 THEN 1 ELSE 0),
                    !.executed = Append(acc.executed,
                                        [line_num |-> line_num, p |-> p, ret |-> r.ret,
                                         why |-> r.why, parse |-> r.parse,
                                         calls |-> r.calls,
                                         before |-> [f \in DOMAIN Session |-> acc[f]]]),
                    !.errors = acc.errors \o (IF r.ret < 0
                                              THEN <<[line_num |-> line_num, p |-> p]>>
                                              ELSE <<>>)])

RECURSIVE LoadLoop(_, _, _, _)
(* the while loop of ecli_load_config from line line_num on *)
LoadLoop(acc, lines, line_num, env) ==
    IF line_num > Len(lines) THEN acc
    ELSE Val(ConfigLine(lines[line_num]), LAMBDA p :
             IF Skipped(p) THEN LoadLoop(acc, lines, line_num + 1, env)
             ELSE Val(LoadStep(acc, line_num, p, env), LAMBDA next :
                      LoadLoop(next, lines, line_num + 1, env)))

(* a loader that stops reading at the first line that fails *)
ecli_load_config_abort(cli, content, env) ==
    Val(cli @@ [out |-> <<>>, calls |-> <<>>, emits |-> <<>>, cmd_count |-> 0,
                error_count |-> 0, executed |-> <<>>, errors |-> <<>>], LAMBDA start :
        IF ~g_ecli_ctx \/ content = NULL THEN start @@ [ret |-> -1]
        ELSE Val(LoadLoop(start, fgets(content), 1, env), LAMBDA r :
                 IF r.errors = <<>> THEN r @@ [ret |-> 0]
                 ELSE Val(LoadLoop(start, SubSeq(fgets(content), 1, r.errors[1].line_num),
                                   1, env), LAMBDA q :
                          q @@ [ret |-> q.error_count])))

(* ecli_load_config: -1 when no session exists or the file cannot be   *)
(* opened, else the number of lines whose execution failed             *)
ecli_load_config(cli, content, env) ==
    Val(cli @@ [out |-> <<>>, calls |-> <<>>, emits |-> <<>>, cmd_count |-> 0,
                error_count |-> 0, executed |-> <<>>, errors |-> <<>>], LAMBDA start :
        IF ~g_ecli_ctx \/ content = NULL THEN start @@ [ret |-> -1]
        ELSE Val(LoadLoop(start, fgets(content), 1, env), LAMBDA r :
                 r @@ [ret |-> r.error_count]))

(* ------------------------------------------------------------------ *)
(* Startup and the local transport.                                    *)
(* ------------------------------------------------------------------ *)
(* the registry the constructors of examples/minimal leave:            *)
(* ECLI_DEFUN_SET(set, name, ...) and ECLI_DEFUN_SET(set, address, ...) *)
StartupRegistry ==
    ecli_out_register(
        ecli_out_register(<<>>,
            OutEntry(s_set_name, s_greeting, s_fmt_set_name, "_out_set_name", 10), TRUE),
        OutEntry(s_set_address, s_network, s_fmt_set_address, "_out_set_address", 20),
        TRUE)

(* the configurations handed to ecli_init: ECLI_CONFIG_DEFAULT and the *)
(* one of examples/minimal                                             *)
Configs ==
    { [prompt |-> s_prompt_cli, banner |-> NULL, version |-> s_version_100],
      [prompt |-> s_prompt_minimal, banner |-> s_banner, version |-> s_version_100] }

(* calloc leaves client_addr zeroed: ss_family is AF_UNSPEC *)
NoAddr == [family |-> "AF_UNSPEC", ip |-> <<>>, port |-> <<>>]

(* the allocation the environment lets fail while a line is processed *)
Envs == {"ok", "parse_null", "exp_parse_null", "enter_nomem"}

W2(a, b) == a \o <<" ">> \o b
W3(a, b, c) == a \o <<" ">> \o b \o <<" ">> \o c
NL(s) == s \o <<"\n">>

(* the lines fgets hands to process_line *)
Lines ==
    { NL(s_hello), <<" ", "\t">> \o s_hello \o <<" ", "\r", "\n">>,
      NL(W2(s_show, s_version)), NL(W2(s_sh, s_ver)), NL(W2(s_show, s_run)),
      NL(W2(s_show, s_runn)), NL(s_version),
      NL(W3(s_set, s_name, s_Alice)), NL(W2(s_name, s_Alice)),
      NL(W3(s_set, s_address, s_ip1)), NL(s_ip1), NL(W2(s_set, s_name)),
      NL(W2(s_write, s_terminal)),
      NL(s_set), NL(s_show), NL(s_address), NL(<<"s", "e">>),
      NL(s_end), NL(s_exit), NL(s_quit), NL(s_bogus),
      NL(W3(s_vhost, s_del, s_Alice)),
      <<"\n">>, <<" ", " ", "\n">>, s_end }

(* the session ecli_init_common and its caller leave, and the          *)
(* application state before any command has run                        *)
InitWith(configs, m, head) ==
    /\ config \in configs
    /\ mode = m
    /\ running = TRUE
    /\ context_stack = <<>>
    /\ context_depth = 0
    /\ current_prompt = ecli_update_prompt(<<>>, 0)
    /\ g_name = s_world
    /\ g_address = <<>>
    /\ g_cli_out_head = head
    /\ out = <<>>
    /\ calls = <<>>
    /\ emits = <<>>
    /\ output_fmt_registry = <<>>
    /\ use_yaml = FALSE
    /\ has_client = FALSE
    /\ client_bev = 0
    /\ client_addr = NoAddr
    /\ fds = <<>>
    /\ in_loop = FALSE
    /\ reg_calls = <<>>
    /\ file = NULL
    /\ g_ecli_ctx = TRUE
    /\ cb_registry = StartupCallbacks
    /\ use_editline = FALSE

(* ecli_init: the session of a foreground process, after the          *)
(* constructors have registered the output functions of ECLI_DEFUN_SET *)
Init ==
    /\ InitWith(Configs, "STDIN", StartupRegistry)
    /\ last = [op |-> "init"]

(* one iteration of the stdin loop of ecli_run: fgets, then process_line *)
StdinLine(raw, env) ==
    /\ mode = "STDIN"
    /\ ~use_editline
    /\ running
    /\ \E r \in {process_line(Session, raw, env)} :
          /\ r.context_depth <= MaxDepth
          /\ context_stack' = r.context_stack
          /\ context_depth' = r.context_depth
          /\ current_prompt' = r.current_prompt
          /\ g_name' = r.g_name
          /\ g_address' = r.g_address
          /\ running' = r.running
          /\ out' = r.out
          /\ calls' = r.calls
          /\ emits' = r.emits
          /\ last' = [op |-> "line", raw |-> raw, env |-> env,
                      stack |-> context_stack, depth |-> context_depth,
                      res |-> r.res]
    /\ UNCHANGED <<mode, g_cli_out_head, output_fmt_registry, use_yaml, has_client,
                   client_bev, client_addr, fds, config, in_loop, reg_calls,
                   file, g_ecli_ctx, cb_registry, use_editline>>

(* the faults are injected on the lines whose processing reaches them *)
Inputs ==
    { <<raw, "ok">> : raw \in Lines }
    \cup { <<NL(W2(s_sh, s_ver)), env>> : env \in {"parse_null", "exp_parse_null"} }
    \cup { <<NL(s_set), "enter_nomem">> }

Next == \E i \in Inputs : StdinLine(i[1], i[2])

Spec == Init /\ [][Next]_vars

(* ------------------------------------------------------------------ *)
(* The stdin session on a command whose path carries two callbacks.    *)
(* ------------------------------------------------------------------ *)
NestedLines ==
    { NL(W3(s_show, s_zone, s_detail)), NL(W2(s_zone, s_detail)),
      NL(W3(s_sh, s_zone, s_detail)), NL(W2(s_show, s_zone)),
      NL(W2(s_show, s_version)), NL(W3(s_set, s_name, s_Alice)),
      NL(s_show), NL(s_set), NL(s_hello), NL(s_end), NL(s_exit), NL(s_bogus) }

NextNested == \E raw \in NestedLines : StdinLine(raw, "ok")

SpecNested == Init /\ [][NextNested]_vars

(* ------------------------------------------------------------------ *)
(* The output registry on its own: registrations and dumps.            *)
(* ------------------------------------------------------------------ *)
(* an output function that prints its format string *)
PrintEntry(name, group, priority) ==
    OutEntry(name, group, name \o s_nl, "_out_print", priority)

OutNames == {s_a, s_b, s_c}
OutGroups == {s_G1, s_G2}
OutPriorities == {5, 10, 20}

(* the bindings the application registers *)
OutEntries ==
    { PrintEntry(n, g, pr) : n \in OutNames, g \in OutGroups, pr \in OutPriorities }

(* before any constructor has run: g_cli_out_head = NULL *)
InitOut ==
    /\ InitWith({[prompt |-> s_prompt_cli, banner |-> NULL, version |-> s_version_100]},
                "STDIN", <<>>)
    /\ last = [op |-> "init"]

(* one call of ecli_out_register; each binding is registered once *)
OutRegister(entry, alloc_ok) ==
    /\ \A i \in 1..Len(reg_calls) : reg_calls[i].entry.name # entry.name
    /\ g_cli_out_head' = ecli_out_register(g_cli_out_head, entry, alloc_ok)
    /\ reg_calls' = Append(reg_calls, [entry |-> entry, alloc_ok |-> alloc_ok])
    /\ out' = <<>>
    /\ calls' = <<>>
    /\ emits' = <<>>
    /\ last' = [op |-> "register", entry |-> entry, alloc_ok |-> alloc_ok]
    /\ UNCHANGED <<mode, running, context_stack, context_depth, current_prompt,
                   g_name, g_address, output_fmt_registry, use_yaml, has_client,
                   client_bev, client_addr, fds, config, in_loop,
                   file, g_ecli_ctx, cb_registry, use_editline>>

(* one call of ecli_dump_running_config(cli, NULL) *)
DumpRunningConfig ==
    /\ \E d \in {ecli_dump_running_config(Session, g_cli_out_head)} :
          /\ out' = WriteAll(d.texts)
          /\ emits' = d.emits
          /\ last' = [op |-> "dump", fmts |-> d.fmts]
    /\ calls' = <<>>
    /\ UNCHANGED <<mode, running, context_stack, context_depth, current_prompt,
                   g_name, g_address, g_cli_out_head, output_fmt_registry, use_yaml,
                   has_client, client_bev, client_addr, fds, config, in_loop,
                   reg_calls,
                   file, g_ecli_ctx, cb_registry, use_editline>>

NextOut ==
    \/ \E entry \in OutEntries, alloc_ok \in BOOLEAN : OutRegister(entry, alloc_ok)
    \/ DumpRunningConfig

SpecOut == InitOut /\ [][NextOut]_vars

(* ------------------------------------------------------------------ *)
(* The registry with bindings that name no group.                      *)
(* ------------------------------------------------------------------ *)
(* the bindings the application registers: group may be a NULL pointer *)
GroupEntries ==
    { PrintEntry(n, g, pr) : n \in OutNames, g \in OutGroups \cup {NULL},
                             pr \in OutPriorities }

NextGroups ==
    \/ \E entry \in GroupEntries, alloc_ok \in BOOLEAN : OutRegister(entry, alloc_ok)
    \/ DumpRunningConfig

SpecGroups == InitOut /\ [][NextGroups]_vars

(* ------------------------------------------------------------------ *)
(* The format overrides: registrations, loaded override files, dumps.  *)
(* ------------------------------------------------------------------ *)
FmtNames == {s_a, s_b}
FmtPriorities == {5, 10}

(* the bindings the application registers *)
FmtEntries ==
    { PrintEntry(n, g, pr) : n \in FmtNames, g \in OutGroups, pr \in FmtPriorities }

(* the output_formats sections of the files loaded: key and value      *)
(* scalars in the order of the file, and a file that does not open     *)
FormatFiles ==
    { [opened |-> FALSE, pairs |-> <<>>],
      [opened |-> TRUE, pairs |-> <<[key |-> s_a, value |-> s_fmt_one]>>],
      [opened |-> TRUE, pairs |-> <<[key |-> s_a, value |-> s_fmt_two],
                                    [key |-> s_c, value |-> s_fmt_one]>>],
      [opened |-> TRUE, pairs |-> <<[key |-> s_b, value |-> s_fmt_one],
                                    [key |-> s_b, value |-> s_fmt_two]>>] }

(* before any constructor has run and before any file is loaded *)
InitFmt ==
    /\ InitWith({[prompt |-> s_prompt_cli, banner |-> NULL, version |-> s_version_100]},
                "STDIN", <<>>)
    /\ last = [op |-> "init"]

(* one call of ecli_out_register; each binding is registered once *)
FmtRegister(entry, alloc_ok) ==
    /\ entry \in FmtEntries
    /\ OutRegister(entry, alloc_ok)

(* one call of ecli_yaml_load_formats(filename) *)
LoadFormats(fp, alloc_ok) ==
    /\ output_fmt_registry' =
          parse_output_formats(output_fmt_registry, fp, 1, alloc_ok)
    /\ out' = <<>>
    /\ calls' = <<>>
    /\ emits' = <<>>
    /\ last' = [op |-> "load_formats", fp |-> fp, alloc_ok |-> alloc_ok]
    /\ UNCHANGED <<mode, running, context_stack, context_depth, current_prompt,
                   g_name, g_address, g_cli_out_head, use_yaml, has_client,
                   client_bev, client_addr, fds, config, in_loop, reg_calls,
                   file, g_ecli_ctx, cb_registry, use_editline>>

NextFmt ==
    \/ \E entry \in FmtEntries, alloc_ok \in BOOLEAN : FmtRegister(entry, alloc_ok)
    \/ \E fp \in FormatFiles, alloc_ok \in BOOLEAN : LoadFormats(fp, alloc_ok)
    \/ DumpRunningConfig

SpecFmt == InitFmt /\ [][NextFmt]_vars

(* ------------------------------------------------------------------ *)
(* Template substitution on its own.                                   *)
(* ------------------------------------------------------------------ *)
(* a text that nearly fills the output buffer, and the string values   *)
(* that end past the buffer and exactly at its last byte behind it     *)
LongText == [i \in 1..(out_end - 23) |-> "x"]
LongValue == [i \in 1..30 |-> "v"]
EdgeValue == [i \in 1..(out_end - Len(LongText)) |-> "w"]

(* a parameter name as long as name_buf *)
LongName == [i \in 1..FMT_NAME_SIZE |-> "k"]

(* what templates are made of: text without braces, a closing brace,   *)
(* and placeholders                                                    *)
TemplatePieces ==
    { s_set \o <<" ">>, s_nl, <<"}">>, LongText,
      <<"{">> \o s_value \o <<"}">>, <<"{", "x", "}">>, <<"{", "n", "}">>,
      <<"{", "}">>, <<"{">> \o LongName \o <<"}">> }

(* the templates: one to three pieces *)
Templates ==
    { <<a>> : a \in TemplatePieces }
    \cup { <<a, b>> : a \in TemplatePieces, b \in TemplatePieces }
    \cup { <<a, b, c>> : a \in TemplatePieces, b \in TemplatePieces,
                         c \in TemplatePieces }

(* the argument lists of the callers, without the NULL sentinel *)
ParamLists ==
    { <<>>,
      <<FmtParam(s_value, "ECLI_FMT_STR", s_Alice, 0),
        FmtParam(<<"n">>, "ECLI_FMT_INT", NULL, 0 - 50)>>,
      <<FmtParam(s_value, "ECLI_FMT_STR", NULL, 0),
        FmtParam(s_value, "ECLI_FMT_STR", s_Bob, 0),
        FmtParam(<<"x">>, "ECLI_FMT_UINT", NULL, 7)>>,
      <<FmtParam(s_value, "ECLI_FMT_STR", LongValue, 0),
        FmtParam(<<"n">>, "ECLI_FMT_LONG", NULL, 2147483647)>>,
      <<FmtParam(s_value, "ECLI_FMT_STR", EdgeValue, 0),
        FmtParam(<<"x">>, "ECLI_FMT_ULONG", NULL, 0)>>,
      [i \in 1..ECLI_FMT_MAX_PARAMS |-> FmtParam(<<"f">>, "ECLI_FMT_INT", NULL, i)]
         \o <<FmtParam(<<"x">>, "ECLI_FMT_STR", s_Bob, 0)>>,
      <<FmtParam(LongName, "ECLI_FMT_STR", s_Bob, 0)>> }

InitSubst ==
    /\ InitWith({[prompt |-> s_prompt_cli, banner |-> NULL, version |-> s_version_100]},
                "STDIN", StartupRegistry)
    /\ last \in { [op |-> "fmt_input", pieces |-> t, params |-> ps] :
                    t \in Templates, ps \in ParamLists }

(* one call of ecli_out_fmt(cli, NULL, fmt, ...).  When the cursor has *)
(* passed out_end the terminating NUL is stored outside the buffer:    *)
(* the call either returns, the text cut by snprintf being written, or *)
(* the process does not survive the store                              *)
OutFmt ==
    /\ last.op = "fmt_input"
    /\ \E r \in {FmtRun(Flatten(last.pieces), last.params)} :
          \E outcome \in (IF r.out > out_end THEN {"returned", "undefined"}
                          ELSE {"returned"}) :
             /\ out' = IF outcome = "returned" THEN WriteAll(<<r.output>>) ELSE <<>>
             /\ last' = [op |-> "fmt", pieces |-> last.pieces, params |-> last.params,
                         cursor |-> r.out, outcome |-> outcome]
    /\ UNCHANGED <<mode, running, context_stack, context_depth, current_prompt,
                   g_name, g_address, g_cli_out_head, calls, emits,
                   output_fmt_registry, use_yaml, has_client, client_bev,
                   client_addr, fds, config, in_loop, reg_calls,
                   file, g_ecli_ctx, cb_registry, use_editline>>

NextSubst == OutFmt

SpecSubst == InitSubst /\ [][NextSubst]_vars

(* ------------------------------------------------------------------ *)
(* The remote transport.                                               *)
(* ------------------------------------------------------------------ *)
(* inet_ntop(AF_INET, ...): the four bytes in decimal, dotted *)
inet_ntop(bytes) ==
    JoinWith(<<DecStr(bytes[1]), DecStr(bytes[2]), DecStr(bytes[3]), DecStr(bytes[4])>>,
             s_dot)

(* ntohs: the two bytes of the port, most significant first *)
ntohs(port) == port[1] * 256 + port[2]

(* the peers of the loopback listener: 127.0.0.1 and an ephemeral port *)
PeerAddrs ==
    { [family |-> "AF_INET", ip |-> <<127, 0, 0, 1>>, port |-> <<156, 65>>],
      [family |-> "AF_INET", ip |-> <<127, 0, 0, 1>>, port |-> <<217, 3>>] }

(* the part of the session the transport callbacks read and write *)
Transport ==
    [has_client |-> has_client, client_bev |-> client_bev,
     client_addr |-> client_addr, current_prompt |-> current_prompt]

(* the rejection notice of tcp_accept_cb; the listener is bound to an  *)
(* AF_INET address, so no AF_INET6 peer is ever stored                 *)
RejectionMsg(addr) ==
    LET ip_str == IF addr.family = "AF_INET" THEN inet_ntop(addr.ip) ELSE s_unknown
        port == IF addr.family = "AF_INET" THEN ntohs(addr.port) ELSE 0
    IN Take(s_Another_session \o ip_str \o s_colon \o DecStr(port) \o s_crlf,
            MSG_SIZE - 1)

(* an accept whose rejection notice formats the new peer's address *)
tcp_accept_cb_names_peer(cli, fd, addr, alloc_ok) ==
    IF cli.has_client
    THEN [has_client |-> cli.has_client, client_bev |-> cli.client_bev,
          client_addr |-> cli.client_addr,
          out |-> <<[to |-> fd, s |-> RejectionMsg(addr)]>>,
          closed |-> TRUE]
    ELSE IF ~alloc_ok
    THEN [has_client |-> cli.has_client, client_bev |-> 0,
          client_addr |-> cli.client_addr, out |-> <<>>, closed |-> TRUE]
    ELSE [has_client |-> TRUE, client_bev |-> fd, client_addr |-> addr,
          out |-> (IF config_banner # NULL
                   THEN ecli_write_on(fd, config_banner \o s_sp_v \o config_version
                                          \o s_crlf)
                   ELSE <<>>)
                  \o ecli_write_on(fd, cli.current_prompt),
          closed |-> FALSE]

(* an accept that copies the peer address before the bufferevent is    *)
(* allocated, so that a failed attach leaves the new address stored    *)
tcp_accept_cb_stores_first(cli, fd, addr, alloc_ok) ==
    IF cli.has_client
    THEN [has_client |-> cli.has_client, client_bev |-> cli.client_bev,
          client_addr |-> cli.client_addr,
          out |-> <<[to |-> fd, s |-> RejectionMsg(cli.client_addr)]>>,
          closed |-> TRUE]
    ELSE IF ~alloc_ok
    THEN [has_client |-> cli.has_client, client_bev |-> 0,
          client_addr |-> addr, out |-> <<>>, closed |-> TRUE]
    ELSE [has_client |-> TRUE, client_bev |-> fd, client_addr |-> addr,
          out |-> (IF config_banner # NULL
                   THEN ecli_write_on(fd, config_banner \o s_sp_v \o config_version
                                          \o s_crlf)
                   ELSE <<>>)
                  \o ecli_write_on(fd, cli.current_prompt),
          closed |-> FALSE]

(* tcp_accept_cb for the connection fd from the peer addr: what the    *)
(* session holds afterwards, what was written, whether fd was closed   *)
tcp_accept_cb(cli, fd, addr, alloc_ok) ==
    IF cli.has_client
    THEN [has_client |-> cli.has_client, client_bev |-> cli.client_bev,
          client_addr |-> cli.client_addr,
          out |-> <<[to |-> fd, s |-> RejectionMsg(cli.client_addr)]>>,
          closed |-> TRUE]
    ELSE IF ~alloc_ok
    THEN [has_client |-> cli.has_client, client_bev |-> 0,
          client_addr |-> cli.client_addr, out |-> <<>>, closed |-> TRUE]
    ELSE [has_client |-> TRUE, client_bev |-> fd, client_addr |-> addr,
          out |-> (IF config_banner # NULL
                   THEN ecli_write_on(fd, config_banner \o s_sp_v \o config_version
                                          \o s_crlf)
                   ELSE <<>>)
                  \o ecli_write_on(fd, cli.current_prompt),
          closed |-> FALSE]

(* an event callback that frees the bufferevent and clears the flag    *)
(* but leaves the freed handle in client_bev                           *)
tcp_event_cb_keeps_handle(cli, events) ==
    IF events \cap {"BEV_EVENT_EOF", "BEV_EVENT_ERROR"} # {}
    THEN [has_client |-> FALSE, client_bev |-> cli.client_bev, freed |-> cli.client_bev]
    ELSE [has_client |-> cli.has_client, client_bev |-> cli.client_bev, freed |-> 0]

(* an event callback that frees the bufferevent and leaves has_client set *)
tcp_event_cb_keeps_flag(cli, events) ==
    IF events \cap {"BEV_EVENT_EOF", "BEV_EVENT_ERROR"} # {}
    THEN [has_client |-> cli.has_client, client_bev |-> 0, freed |-> cli.client_bev]
    ELSE [has_client |-> cli.has_client, client_bev |-> cli.client_bev, freed |-> 0]

(* tcp_event_cb: EOF or error frees the client's bufferevent, which    *)
(* closes its socket (BEV_OPT_CLOSE_ON_FREE)                           *)
tcp_event_cb(cli, events) ==
    IF events \cap {"BEV_EVENT_EOF", "BEV_EVENT_ERROR"} # {}
    THEN [has_client |-> FALSE, client_bev |-> 0, freed |-> cli.client_bev]
    ELSE [has_client |-> cli.has_client, client_bev |-> cli.client_bev, freed |-> 0]

(* one pass of the while loop of tcp_read_cb: process_line on the line, *)
(* added to what has been written and invoked so far                   *)
ReadStep(acc, line, env) ==
    Val(process_line(acc, line, env), LAMBDA r :
        [r EXCEPT !.out = acc.out \o r.out,
                  !.calls = acc.calls \o r.calls,
                  !.emits = acc.emits \o r.emits,
                  !.res = Append(acc.res, r.res)])

RECURSIVE tcp_read_cb(_, _, _)
(* tcp_read_cb: process_line on every line evbuffer_readln hands out;  *)
(* acc is the session with what has been written and invoked so far    *)
tcp_read_cb(acc, lines, env) ==
    IF lines = <<>> THEN acc
    ELSE Val(ReadStep(acc, Head(lines), env), LAMBDA next :
             tcp_read_cb(next, Tail(lines), env))

(* the sets of event flags libevent reports on the client's bufferevent *)
EventSets ==
    { {"BEV_EVENT_EOF", "BEV_EVENT_READING"}, {"BEV_EVENT_ERROR", "BEV_EVENT_WRITING"},
      {"BEV_EVENT_TIMEOUT", "BEV_EVENT_READING"} }

(* the lines a read callback finds in the input buffer (EOL stripped) *)
TcpBatches ==
    { <<l>> : l \in { s_hello, s_set, W2(s_name, s_Alice), s_end, s_exit, s_quit,
                      W2(s_show, s_name) } }
    \cup { <<a, b>> : a \in {s_quit, s_set}, b \in {s_hello, W2(s_name, s_Bob)} }

(* ecli_init_tcp: no client, the listener bound *)
InitTcp ==
    /\ InitWith(Configs, "TCP", StartupRegistry)
    /\ last = [op |-> "init"]

(* ecli_run in TCP mode: event_base_loop(EVLOOP_ONCE) while running is set *)
LoopEnter ==
    /\ mode = "TCP"
    /\ running
    /\ ~in_loop
    /\ in_loop' = TRUE
    /\ out' = <<>>
    /\ calls' = <<>>
    /\ emits' = <<>>
    /\ last' = [op |-> "loop_enter"]
    /\ UNCHANGED <<mode, running, context_stack, context_depth, current_prompt,
                   g_name, g_address, g_cli_out_head, output_fmt_registry, use_yaml,
                   has_client, client_bev, client_addr, fds, config, reg_calls,
                   file, g_ecli_ctx, cb_registry, use_editline>>

(* event_base_loop returns once the active callbacks have run *)
LoopReturn ==
    /\ mode = "TCP"
    /\ in_loop
    /\ in_loop' = FALSE
    /\ out' = <<>>
    /\ calls' = <<>>
    /\ emits' = <<>>
    /\ last' = [op |-> "loop_return"]
    /\ UNCHANGED <<mode, running, context_stack, context_depth, current_prompt,
                   g_name, g_address, g_cli_out_head, output_fmt_registry, use_yaml,
                   has_client, client_bev, client_addr, fds, config, reg_calls,
                   file, g_ecli_ctx, cb_registry, use_editline>>

(* the listener hands a new connection to tcp_accept_cb *)
TcpAccept(addr, alloc_ok) ==
    /\ mode = "TCP"
    /\ in_loop
    /\ Len(fds) < MaxConns
    /\ \E fd \in {Len(fds) + 1} :
       \E r \in {tcp_accept_cb(Transport, fd, addr, alloc_ok)} :
          /\ has_client' = r.has_client
          /\ client_bev' = r.client_bev
          /\ client_addr' = r.client_addr
          /\ out' = r.out
          /\ fds' = Append(fds, [addr |-> addr, bev |-> ~r.closed,
                                 state |-> IF r.closed THEN "closed" ELSE "attached"])
          /\ last' = [op |-> "accept", fd |-> fd, addr |-> addr, alloc_ok |-> alloc_ok,
                      had_client |-> has_client]
    /\ calls' = <<>>
    /\ emits' = <<>>
    /\ UNCHANGED <<mode, running, context_stack, context_depth, current_prompt,
                   g_name, g_address, g_cli_out_head, output_fmt_registry, use_yaml,
                   config, in_loop, reg_calls,
                   file, g_ecli_ctx, cb_registry, use_editline>>

(* libevent reports events on the attached client's bufferevent *)
TcpEvent(events) ==
    /\ mode = "TCP"
    /\ in_loop
    /\ client_bev # 0
    /\ \E r \in {tcp_event_cb(Transport, events)} :
          /\ has_client' = r.has_client
          /\ client_bev' = r.client_bev
          /\ fds' = IF r.freed # 0 THEN [fds EXCEPT ![r.freed].state = "closed"]
                    ELSE fds
    /\ out' = <<>>
    /\ calls' = <<>>
    /\ emits' = <<>>
    /\ last' = [op |-> "event", events |-> events, bev |-> client_bev]
    /\ UNCHANGED <<mode, running, context_stack, context_depth, current_prompt,
                   g_name, g_address, g_cli_out_head, output_fmt_registry, use_yaml,
                   client_addr, config, in_loop, reg_calls,
                   file, g_ecli_ctx, cb_registry, use_editline>>

(* the attached client's bufferevent has input: tcp_read_cb *)
TcpRead(lines, env) ==
    /\ mode = "TCP"
    /\ in_loop
    /\ client_bev # 0
    /\ \E r \in {tcp_read_cb(Session @@ [out |-> <<>>, calls |-> <<>>, emits |-> <<>>,
                                          res |-> <<>>], lines, env)} :
          /\ r.context_depth <= MaxDepth
          /\ context_stack' = r.context_stack
          /\ context_depth' = r.context_depth
          /\ current_prompt' = r.current_prompt
          /\ g_name' = r.g_name
          /\ g_address' = r.g_address
          /\ running' = r.running
          /\ out' = r.out
          /\ calls' = r.calls
          /\ emits' = r.emits
          /\ last' = [op |-> "read", lines |-> lines, env |-> env,
                      stack |-> context_stack, depth |-> context_depth,
                      res |-> r.res]
    /\ UNCHANGED <<mode, g_cli_out_head, output_fmt_registry, use_yaml, has_client,
                   client_bev, client_addr, fds, config, in_loop, reg_calls,
                   file, g_ecli_ctx, cb_registry, use_editline>>

NextTcp ==
    \/ LoopEnter
    \/ LoopReturn
    \/ \E addr \in PeerAddrs, alloc_ok \in BOOLEAN : TcpAccept(addr, alloc_ok)
    \/ \E events \in EventSets : TcpEvent(events)
    \/ \E lines \in TcpBatches : TcpRead(lines, "ok")

SpecTcp == InitTcp /\ [][NextTcp]_vars

(* ------------------------------------------------------------------ *)
(* ecli_run and the keep-running flag, in both modes.                  *)
(* ------------------------------------------------------------------ *)
(* the lines the stdin loop reads while the flag is watched *)
RunLines ==
    { NL(s_hello), NL(s_quit), NL(s_set), NL(s_bogus), NL(W2(s_name, s_Alice)),
      NL(s_end) }

(* ecli_init or ecli_init_tcp has returned and ecli_run has been       *)
(* called with the application's flag                                  *)
InitRun ==
    /\ \E m \in {"STDIN", "TCP"} :
          InitWith({[prompt |-> s_prompt_cli, banner |-> NULL,
                     version |-> s_version_100]}, m, StartupRegistry)
    /\ last = [op |-> "init"]

(* a stdin loop that calls fgets without looking at the flag *)
StdinCheck_unchecked ==
    /\ mode = "STDIN"
    /\ last.op # "run_return"
    /\ ~in_loop
    /\ in_loop' = TRUE
    /\ out' = <<>>
    /\ calls' = <<>>
    /\ emits' = <<>>
    /\ last' = [op |-> "fgets"]
    /\ UNCHANGED <<mode, running, context_stack, context_depth, current_prompt,
                   g_name, g_address, g_cli_out_head, output_fmt_registry, use_yaml,
                   has_client, client_bev, client_addr, fds, config, reg_calls,
                   file, g_ecli_ctx, cb_registry, use_editline>>

(* the stdin loop evaluates its condition with the flag set and calls  *)
(* fgets, which blocks until a line or the end of the input arrives    *)
StdinCheck ==
    /\ mode = "STDIN"
    /\ last.op # "run_return"
    /\ ~in_loop
    /\ running
    /\ in_loop' = TRUE
    /\ out' = <<>>
    /\ calls' = <<>>
    /\ emits' = <<>>
    /\ last' = [op |-> "fgets"]
    /\ UNCHANGED <<mode, running, context_stack, context_depth, current_prompt,
                   g_name, g_address, g_cli_out_head, output_fmt_registry, use_yaml,
                   has_client, client_bev, client_addr, fds, config, reg_calls,
                   file, g_ecli_ctx, cb_registry, use_editline>>

(* fgets returns a line and the body of the loop runs: process_line *)
StdinBody(raw, env) ==
    /\ mode = "STDIN"
    /\ in_loop
    /\ \E r \in {process_line(Session, raw, env)} :
          /\ r.context_depth <= MaxDepth
          /\ context_stack' = r.context_stack
          /\ context_depth' = r.context_depth
          /\ current_prompt' = r.current_prompt
          /\ g_name' = r.g_name
          /\ g_address' = r.g_address
          /\ running' = (running /\ r.running)
          /\ out' = r.out
          /\ calls' = r.calls
          /\ emits' = r.emits
          /\ last' = [op |-> "line", raw |-> raw, env |-> env,
                      stack |-> context_stack, depth |-> context_depth,
                      res |-> r.res]
    /\ in_loop' = FALSE
    /\ UNCHANGED <<mode, g_cli_out_head, output_fmt_registry, use_yaml, has_client,
                   client_bev, client_addr, fds, config, reg_calls,
                   file, g_ecli_ctx, cb_registry, use_editline>>

(* ecli_run returns: the loop condition is false at the start of an    *)
(* iteration, or (eof) fgets has returned NULL                         *)
RunReturn(eof) ==
    /\ last.op # "run_return"
    /\ IF eof THEN mode = "STDIN" /\ in_loop ELSE ~in_loop /\ ~running
    /\ in_loop' = FALSE
    /\ out' = <<>>
    /\ calls' = <<>>
    /\ emits' = <<>>
    /\ last' = [op |-> "run_return", eof |-> eof]
    /\ UNCHANGED <<mode, running, context_stack, context_depth, current_prompt,
                   g_name, g_address, g_cli_out_head, output_fmt_registry, use_yaml,
                   has_client, client_bev, client_addr, fds, config, reg_calls,
                   file, g_ecli_ctx, cb_registry, use_editline>>

(* an external interrupt: the application's signal callback clears the *)
(* flag and calls ecli_request_exit, wherever the loop is              *)
Interrupt ==
    /\ last.op # "run_return"
    /\ running
    /\ running' = FALSE
    /\ UNCHANGED <<mode, context_stack, context_depth, current_prompt,
                   g_name, g_address, g_cli_out_head, out, calls, emits,
                   output_fmt_registry, use_yaml, has_client, client_bev,
                   client_addr, fds, config, in_loop, reg_calls,
                   file, g_ecli_ctx, cb_registry, use_editline, last>>

NextRun ==
    \/ StdinCheck
    \/ \E raw \in RunLines : StdinBody(raw, "ok")
    \/ \E eof \in BOOLEAN : RunReturn(eof)
    \/ Interrupt
    \/ LoopEnter
    \/ LoopReturn
    \/ \E addr \in PeerAddrs : TcpAccept(addr, TRUE)
    \/ \E events \in EventSets : TcpEvent(events)
    \/ \E lines \in TcpBatches : TcpRead(lines, "ok")

SpecRun == InitRun /\ [][NextRun]_vars

(* ------------------------------------------------------------------ *)
(* The context stack manager on its own.                               *)
(* ------------------------------------------------------------------ *)
(* a frame name and a base prompt longer than the buffers of           *)
(* ecli_update_prompt                                                  *)
LongFrame == [i \in 1..(CONTEXT_PATH_SIZE \div 2 + 6) |-> "c"]
LongPrompt == [i \in 1..(BASE_SIZE + 6) |-> "p"] \o <<">", " ">>

(* the names the frames are given *)
CtxNames == {s_show, s_set, LongFrame}

(* the base prompts: a glyph with and without a character behind it,   *)
(* no glyph, glyphs only, and one that does not fit                    *)
CtxPrompts ==
    { s_prompt_cli, <<"r", "#">>, <<"a", ">", "b">>, s_set, <<">", ">">>, <<"#">>,
      LongPrompt }

InitCtx ==
    /\ InitWith({ [prompt |-> p, banner |-> NULL, version |-> s_version_100] :
                    p \in CtxPrompts }, "STDIN", StartupRegistry)
    /\ last = [op |-> "init"]

(* the part of the session the context operations read and write *)
Frames ==
    [context_stack |-> context_stack, context_depth |-> context_depth,
     current_prompt |-> current_prompt]

(* one call of ecli_enter_context(cli, context) *)
EnterContext(context, alloc_ok) ==
    /\ context_depth < MaxDepth
    /\ \E r \in {ecli_enter_context(context_stack, context_depth, context, alloc_ok)} :
          /\ context_stack' = r.stack
          /\ context_depth' = r.depth
          /\ current_prompt' = IF r.updated THEN ecli_update_prompt(r.stack, r.depth)
                               ELSE current_prompt
          /\ last' = [op |-> "enter", context |-> context, alloc_ok |-> alloc_ok,
                      ret |-> r.ret, before |-> Frames]
    /\ out' = <<>>
    /\ calls' = <<>>
    /\ emits' = <<>>
    /\ UNCHANGED <<mode, running, g_name, g_address, g_cli_out_head,
                   output_fmt_registry, use_yaml, has_client, client_bev,
                   client_addr, fds, config, in_loop, reg_calls,
                   file, g_ecli_ctx, cb_registry, use_editline>>

(* one call of ecli_exit_context(cli) *)
ExitContext ==
    /\ \E r \in {ecli_exit_context(context_stack, context_depth)} :
          /\ context_stack' = r.stack
          /\ context_depth' = r.depth
          /\ current_prompt' = IF r.updated THEN ecli_update_prompt(r.stack, r.depth)
                               ELSE current_prompt
          /\ out' = WriteAll(r.texts)
          /\ last' = [op |-> "exit_one", ret |-> r.ret, before |-> Frames]
    /\ calls' = <<>>
    /\ emits' = <<>>
    /\ UNCHANGED <<mode, running, g_name, g_address, g_cli_out_head,
                   output_fmt_registry, use_yaml, has_client, client_bev,
                   client_addr, fds, config, in_loop, reg_calls,
                   file, g_ecli_ctx, cb_registry, use_editline>>

(* one call of ecli_exit_all_contexts(cli) *)
ExitAllContexts ==
    /\ \E r \in {ecli_exit_all_contexts(context_stack, context_depth)} :
          /\ context_stack' = r.stack
          /\ context_depth' = r.depth
          /\ current_prompt' = ecli_update_prompt(r.stack, r.depth)
          /\ last' = [op |-> "exit_all", before |-> Frames]
    /\ out' = <<>>
    /\ calls' = <<>>
    /\ emits' = <<>>
    /\ UNCHANGED <<mode, running, g_name, g_address, g_cli_out_head,
                   output_fmt_registry, use_yaml, has_client, client_bev,
                   client_addr, fds, config, in_loop, reg_calls,
                   file, g_ecli_ctx, cb_registry, use_editline>>

NextCtx ==
    \/ \E context \in CtxNames, alloc_ok \in BOOLEAN : EnterContext(context, alloc_ok)
    \/ ExitContext
    \/ ExitAllContexts

SpecCtx == InitCtx /\ [][NextCtx]_vars

(* ------------------------------------------------------------------ *)
(* Abbreviation expansion on its own.                                  *)
(* ------------------------------------------------------------------ *)
(* the words command strings are made of: keywords, their prefixes,    *)
(* an argument and a word the grammar does not know                    *)
ExpandTokens ==
    { <<"s">>, s_sh, s_show, s_set, <<"r">>, s_run, s_runn, s_running_config,
      s_ver, s_version, <<"n">>, s_name, s_address, s_Alice, s_end, <<"w">>,
      s_write, s_bogus }

RECURSIVE CmdsOfLen(_)
(* the command strings of n words separated by one space *)
CmdsOfLen(n) ==
    IF n = 1 THEN ExpandTokens
    ELSE { W2(c, tok) : c \in CmdsOfLen(n - 1), tok \in ExpandTokens }

ExpandInputs == UNION { CmdsOfLen(n) : n \in 1..MaxTokens }

InitExpand ==
    /\ InitWith({[prompt |-> s_prompt_cli, banner |-> NULL, version |-> s_version_100]},
                "STDIN", StartupRegistry)
    /\ last \in { [op |-> "input", cmd |-> c] : c \in ExpandInputs }

(* expand_prefixes on a command string *)
Expand ==
    /\ last.op = "input"
    /\ last' = [op |-> "expanded", cmd |-> last.cmd,
                expanded |-> expand_prefixes(last.cmd)]
    /\ UNCHANGED <<mode, running, context_stack, context_depth, current_prompt,
                   g_name, g_address, g_cli_out_head, out, calls, emits,
                   output_fmt_registry, use_yaml, has_client, client_bev,
                   client_addr, fds, config, in_loop, reg_calls,
                   file, g_ecli_ctx, cb_registry, use_editline>>

(* expand_prefixes on the string a previous expansion returned *)
ExpandAgain ==
    /\ last.op = "expanded"
    /\ last.expanded # NULL
    /\ last' = [op |-> "expanded_again", cmd |-> last.expanded,
                expanded |-> expand_prefixes(last.expanded)]
    /\ UNCHANGED <<mode, running, context_stack, context_depth, current_prompt,
                   g_name, g_address, g_cli_out_head, out, calls, emits,
                   output_fmt_registry, use_yaml, has_client, client_bev,
                   client_addr, fds, config, in_loop, reg_calls,
                   file, g_ecli_ctx, cb_registry, use_editline>>

(* process_line's resolution of the command string at top level: one   *)
(* ec_parse, one expand_prefixes when that is no complete match, one   *)
(* ec_parse of what it returned                                        *)
ExpandResolve(env) ==
    /\ last.op = "input"
    /\ last' = [op |-> "resolved", cmd |-> last.cmd, env |-> env,
                res |-> Resolve(<<>>, 0, last.cmd, env)]
    /\ UNCHANGED <<mode, running, context_stack, context_depth, current_prompt,
                   g_name, g_address, g_cli_out_head, out, calls, emits,
                   output_fmt_registry, use_yaml, has_client, client_bev,
                   client_addr, fds, config, in_loop, reg_calls,
                   file, g_ecli_ctx, cb_registry, use_editline>>

NextExpand ==
    \/ Expand
    \/ ExpandAgain
    \/ \E env \in {"ok", "exp_parse_null"} : ExpandResolve(env)

SpecExpand == InitExpand /\ [][NextExpand]_vars

(* ------------------------------------------------------------------ *)
(* Abbreviation expansion of two commands that start alike.            *)
(* ------------------------------------------------------------------ *)
(* what follows the common start: nothing, or one more word            *)
PairTails ==
    { <<>>, s_sh, s_show, <<"r">>, s_run, s_runn, s_ver, s_version, s_name, s_bogus }

(* the common start with the tail behind it *)
WithTail(start, tail) == IF tail = <<>> THEN start ELSE W2(start, tail)

(* the result buffer of expand_prefixes when its loop ends, whether or *)
(* not a token changed                                                 *)
ResultBuffer(cmd) ==
    ExpandLoop(Split(cmd, {" ", "\t"}), 1, [result |-> <<>>, expanded_any |-> FALSE]).result

InitPair ==
    /\ InitWith({[prompt |-> s_prompt_cli, banner |-> NULL, version |-> s_version_100]},
                "STDIN", StartupRegistry)
    /\ last \in { [op |-> "pair", a |-> WithTail(start, t1), b |-> WithTail(start, t2)] :
                     start \in CmdsOfLen(1) \cup CmdsOfLen(2), t1 \in PairTails,
                     t2 \in PairTails }

(* expand_prefixes on each of the two commands *)
ExpandPair ==
    /\ last.op = "pair"
    /\ last' = [op |-> "expanded_pair", a |-> last.a, b |-> last.b,
                result_a |-> ResultBuffer(last.a), result_b |-> ResultBuffer(last.b),
                expanded_a |-> expand_prefixes(last.a),
                expanded_b |-> expand_prefixes(last.b)]
    /\ UNCHANGED <<mode, running, context_stack, context_depth, current_prompt,
                   g_name, g_address, g_cli_out_head, out, calls, emits,
                   output_fmt_registry, use_yaml, has_client, client_bev,
                   client_addr, fds, config, in_loop, reg_calls,
                   file, g_ecli_ctx, cb_registry, use_editline>>

NextPair == ExpandPair

SpecPair == InitPair /\ [][NextPair]_vars

(* ------------------------------------------------------------------ *)
(* Saving the configuration and replaying it in a new process.         *)
(* ------------------------------------------------------------------ *)
(* the configuration files an operator wrote by hand: comments and     *)
(* blank lines around a command, a last line without terminator; and   *)
(* lines that fail between lines that succeed                          *)
ConfigFiles ==
    { s_hand_comment \o <<"\n">> \o s_note \o <<" ", "\t", " ", "\n">>
        \o NL(s_hello) \o <<" ", " ">>,
      NL(s_bogus) \o NL(W3(s_set, s_name, s_Bob)) \o NL(W2(s_sh, s_ver))
        \o NL(s_end) \o NL(s_exit) \o s_hello \o <<"\t", "\n">>
        \o NL(W3(s_vhost, s_del, s_Alice)) \o NL(W2(s_name, s_Alice)) \o NL(s_set) }

(* the lines typed at the prompt between two saves *)
ReplayLines ==
    { NL(W3(s_set, s_name, s_Alice)), NL(W3(s_set, s_address, s_ip1)),
      NL(W3(s_del, s_address, s_ip1)), NL(s_set), NL(s_end) }

InitReplay ==
    /\ InitWith({[prompt |-> s_prompt_minimal, banner |-> s_banner,
                  version |-> s_version_100]}, "STDIN", StartupRegistry)
    /\ last = [op |-> "init"]

(* a line typed at the prompt of the session *)
ReplayLine(raw) ==
    /\ g_ecli_ctx
    /\ StdinLine(raw, "ok")

(* the application saves the configuration: fopen(filename, "w"),      *)
(* ecli_dump_running_config(cli, fp), fclose                           *)
SaveConfig ==
    /\ g_ecli_ctx
    /\ \E d \in {ecli_dump_running_config(Session, g_cli_out_head)} :
          /\ file' = Flatten(d.texts)
          /\ emits' = d.emits
    /\ out' = <<>>
    /\ calls' = <<>>
    /\ last' = [op |-> "save"]
    /\ UNCHANGED <<mode, running, context_stack, context_depth, current_prompt,
                   g_name, g_address, g_cli_out_head, output_fmt_registry, use_yaml,
                   has_client, client_bev, client_addr, fds, config, in_loop,
                   reg_calls, g_ecli_ctx, cb_registry, use_editline>>

(* the process ends and a new one starts: the static data has its      *)
(* initial values again, the constructors have run, no session exists; *)
(* the file stays on disk                                              *)
ProcessStart ==
    /\ g_ecli_ctx' = FALSE
    /\ running' = TRUE
    /\ context_stack' = <<>>
    /\ context_depth' = 0
    /\ current_prompt' = ecli_update_prompt(<<>>, 0)
    /\ g_name' = s_world
    /\ g_address' = <<>>
    /\ g_cli_out_head' = StartupRegistry
    /\ cb_registry' = StartupCallbacks
    /\ out' = <<>>
    /\ calls' = <<>>
    /\ emits' = <<>>
    /\ last' = [op |-> "start"]
    /\ UNCHANGED <<mode, output_fmt_registry, use_yaml, has_client, client_bev,
                   client_addr, fds, config, in_loop, reg_calls, file, use_editline>>

(* ecli_init: the session is created at the top level, the banner and *)
(* the hint are printed.  yaml_loaded: ecli_init_common found the file *)
(* the grammar variable names and ecli_yaml_load built a grammar from  *)
(* it; tty: stdin is a terminal and ec_editline gave a handle.         *)
EcliInit(yaml_loaded, tty) ==
    /\ ~g_ecli_ctx
    /\ g_ecli_ctx' = TRUE
    /\ use_yaml' = yaml_loaded
    /\ use_editline' = tty
    /\ context_stack' = <<>>
    /\ context_depth' = 0
    /\ current_prompt' = ecli_update_prompt(<<>>, 0)
    /\ out' = (IF config_banner # NULL
               THEN <<[to |-> STDOUT,
                       s |-> config_banner \o s_sp_v \o config_version \o s_nl]>>
               ELSE <<>>)
              \o <<[to |-> STDOUT, s |-> s_Type_help]>>
    /\ calls' = <<>>
    /\ emits' = <<>>
    /\ last' = [op |-> "ecli_init", yaml_loaded |-> yaml_loaded, tty |-> tty]
    /\ UNCHANGED <<mode, running, g_name, g_address, g_cli_out_head,
                   output_fmt_registry, has_client, client_bev, client_addr, fds,
                   config, in_loop, reg_calls, file, cb_registry>>

(* the application calls ecli_load_config on a file: content is what   *)
(* the file holds, NULL when it cannot be opened                       *)
LoadConfig(content, env) ==
    /\ \E r \in {ecli_load_config(Session, content, env)} :
          /\ g_name' = r.g_name
          /\ g_address' = r.g_address
          /\ running' = r.running
          /\ out' = r.out
          /\ calls' = r.calls
          /\ emits' = r.emits
          /\ last' = [op |-> "load", content |-> content, env |-> env,
                      before |-> Session, ctx |-> g_ecli_ctx, ret |-> r.ret,
                      cmd_count |-> r.cmd_count, executed |-> r.executed,
                      errors |-> r.errors]
    /\ UNCHANGED <<mode, context_stack, context_depth, current_prompt,
                   g_cli_out_head, output_fmt_registry, use_yaml, has_client,
                   client_bev, client_addr, fds, config, in_loop, reg_calls, file,
                   g_ecli_ctx, cb_registry, use_editline>>

NextReplay ==
    \/ \E raw \in ReplayLines : ReplayLine(raw)
    \/ SaveConfig
    \/ ProcessStart
    \/ EcliInit(FALSE, FALSE)
    \/ \E content \in {file} \cup ConfigFiles : LoadConfig(content, "ok")
    \/ LoadConfig(file, "parse_null")

SpecReplay == InitReplay /\ [][NextReplay]_vars

(* ------------------------------------------------------------------ *)
(* The two dispatch modes.                                             *)
(* ------------------------------------------------------------------ *)
(* the names and the handlers ecli_yaml_register is called with, by    *)
(* the constructors of the registration macros and by the application  *)
YamlNames == {s_hello, s_show_version}
YamlHandlers == {"hello", "show_version"}

(* the lines typed at the prompt, and the file replayed *)
YamlLines ==
    { NL(s_hello), NL(W2(s_show, s_version)), NL(W2(s_sh, s_ver)), NL(s_exit),
      NL(s_bogus) }
YamlFile == NL(s_hello) \o NL(W2(s_show, s_version))

(* a process before any constructor has called ecli_yaml_register and  *)
(* before ecli_init                                                    *)
InitYaml ==
    /\ config = [prompt |-> s_prompt_cli, banner |-> NULL, version |-> s_version_100]
    /\ mode = "STDIN"
    /\ running = TRUE
    /\ context_stack = <<>>
    /\ context_depth = 0
    /\ current_prompt = ecli_update_prompt(<<>>, 0)
    /\ g_name = s_world
    /\ g_address = <<>>
    /\ g_cli_out_head = StartupRegistry
    /\ out = <<>>
    /\ calls = <<>>
    /\ emits = <<>>
    /\ output_fmt_registry = <<>>
    /\ use_yaml = FALSE
    /\ has_client = FALSE
    /\ client_bev = 0
    /\ client_addr = NoAddr
    /\ fds = <<>>
    /\ in_loop = FALSE
    /\ reg_calls = <<>>
    /\ file = NULL
    /\ g_ecli_ctx = FALSE
    /\ cb_registry = <<>>
    /\ use_editline = FALSE
    /\ last = [op |-> "init"]

(* one call of ecli_yaml_register *)
YamlRegister(name, callback, alloc_ok) ==
    /\ \E r \in {ecli_yaml_register(cb_registry, name, callback, alloc_ok)} :
          /\ cb_registry' = r.registry
          /\ last' = [op |-> "yaml_register", name |-> name, callback |-> callback,
                      alloc_ok |-> alloc_ok, ret |-> r.ret, before |-> cb_registry]
    /\ out' = <<>>
    /\ calls' = <<>>
    /\ emits' = <<>>
    /\ UNCHANGED <<mode, running, context_stack, context_depth, current_prompt,
                   g_name, g_address, g_cli_out_head, output_fmt_registry, use_yaml,
                   has_client, client_bev, client_addr, fds, config, in_loop,
                   reg_calls, file, g_ecli_ctx, use_editline>>

(* one iteration of the loop of editline_interact_with_expansion:      *)
(* ec_editline_gets, then the line is resolved                         *)
EditlineLine(raw, env) ==
    /\ g_ecli_ctx
    /\ mode = "STDIN"
    /\ use_editline
    /\ running
    /\ \E r \in {editline_line(Session, raw, env)} :
          /\ g_name' = r.g_name
          /\ g_address' = r.g_address
          /\ running' = r.running
          /\ out' = r.out
          /\ calls' = r.calls
          /\ emits' = r.emits
          /\ last' = [op |-> "editline", raw |-> raw, env |-> env, kind |-> r.kind,
                      parse |-> r.parse, before |-> Session]
    /\ UNCHANGED <<mode, context_stack, context_depth, current_prompt,
                   g_cli_out_head, output_fmt_registry, use_yaml, has_client,
                   client_bev, client_addr, fds, config, in_loop, reg_calls, file,
                   g_ecli_ctx, cb_registry, use_editline>>

NextYaml ==
    \/ \E name \in YamlNames \cup {NULL}, callback \in YamlHandlers \cup {NoCb},
          alloc_ok \in BOOLEAN : YamlRegister(name, callback, alloc_ok)
    \/ \E yaml_loaded \in BOOLEAN, tty \in BOOLEAN : EcliInit(yaml_loaded, tty)
    \/ \E raw \in YamlLines : ReplayLine(raw)
    \/ \E raw \in YamlLines : EditlineLine(raw, "ok")
    \/ (g_ecli_ctx /\ LoadConfig(YamlFile, "ok"))

SpecYaml == InitYaml /\ [][NextYaml]_vars

(* ------------------------------------------------------------------ *)
(* The editline loop of a direct-mode session, with an application     *)
(* that enters contexts through the public ecli_enter_context.         *)
(* ------------------------------------------------------------------ *)
EditLines ==
    { NL(s_hello), NL(W2(s_show, s_version)), NL(W2(s_sh, s_ver)),
      NL(W3(s_set, s_name, s_Alice)), NL(W2(s_name, s_Alice)),
      NL(s_set), NL(s_show), NL(s_end), NL(s_exit), NL(s_bogus), <<"\n">> }

NextEdit ==
    \/ EcliInit(FALSE, TRUE)
    \/ \E raw \in EditLines : EditlineLine(raw, "ok")
    \/ (g_ecli_ctx /\ \E context \in {s_set, s_show} : EnterContext(context, TRUE))

SpecEdit == InitYaml /\ [][NextEdit]_vars

(* ------------------------------------------------------------------ *)
(* The life of the global context: ecli_init, ecli_init_tcp, ecli_run  *)
(* and ecli_shutdown called by the application in any order.           *)
(* ------------------------------------------------------------------ *)
(* what the environment lets fail during an init: calloc, ec_init,     *)
(* the grammar (ecli_cmd_get_commands returns NULL), the listener      *)
InitEnvs == {"ok", "calloc_null", "ec_init_fail", "no_grammar", "listener_null"}

(* an ecli_init_tcp that does not look at g_ecli_ctx *)
ecli_init_tcp_replaces(exists, env) ==
    IF env = "calloc_null" THEN [ret |-> 0 - 12, installed |-> FALSE]
    ELSE IF env \in {"ec_init_fail", "no_grammar", "listener_null"}
    THEN [ret |-> 0 - 1, installed |-> FALSE]
    ELSE [ret |-> 0, installed |-> TRUE]

(* ecli_init: what it returns (-ENOMEM is -12) and whether it stored a *)
(* new context in g_ecli_ctx; exists: g_ecli_ctx is not NULL           *)
ecli_init(exists, env) ==
    IF exists THEN [ret |-> 0 - 1, installed |-> FALSE]
    ELSE IF env = "calloc_null" THEN [ret |-> 0 - 12, installed |-> FALSE]
    ELSE IF env \in {"ec_init_fail", "no_grammar"}
    THEN [ret |-> 0 - 1, installed |-> FALSE]
    ELSE [ret |-> 0, installed |-> TRUE]

(* ecli_init_tcp: the same, and the listener may fail to bind *)
ecli_init_tcp(exists, env) ==
    IF exists THEN [ret |-> 0 - 1, installed |-> FALSE]
    ELSE IF env = "calloc_null" THEN [ret |-> 0 - 12, installed |-> FALSE]
    ELSE IF env \in {"ec_init_fail", "no_grammar", "listener_null"}
    THEN [ret |-> 0 - 1, installed |-> FALSE]
    ELSE [ret |-> 0, installed |-> TRUE]

(* the fields of the context the application can observe *)
Context ==
    [mode |-> mode, use_yaml |-> use_yaml, use_editline |-> use_editline,
     context_stack |-> context_stack, context_depth |-> context_depth,
     current_prompt |-> current_prompt, has_client |-> has_client,
     client_bev |-> client_bev, client_addr |-> client_addr]

(* the application calls ecli_init (m = "STDIN", stdin not a terminal, *)
(* no YAML grammar named) or ecli_init_tcp (m = "TCP") between two     *)
(* passes of the loop                                                  *)
InitCall(m, env) ==
    /\ ~in_loop
    /\ \E r \in {IF m = "STDIN" THEN ecli_init(g_ecli_ctx, env)
                 ELSE ecli_init_tcp(g_ecli_ctx, env)} :
          /\ g_ecli_ctx' = (g_ecli_ctx \/ r.installed)
          /\ IF r.installed
             THEN /\ mode' = m
                  /\ use_yaml' = FALSE
                  /\ use_editline' = FALSE
                  /\ context_stack' = <<>>
                  /\ context_depth' = 0
                  /\ current_prompt' = ecli_update_prompt(<<>>, 0)
                  /\ has_client' = FALSE
                  /\ client_bev' = 0
                  /\ client_addr' = NoAddr
             ELSE UNCHANGED <<mode, use_yaml, use_editline, context_stack,
                              context_depth, current_prompt, has_client,
                              client_bev, client_addr>>
          /\ out' = IF r.installed /\ m = "STDIN"
                    THEN (IF config_banner # NULL
                          THEN <<[to |-> STDOUT,
                                  s |-> config_banner \o s_sp_v \o config_version
                                        \o s_nl]>>
                          ELSE <<>>)
                         \o <<[to |-> STDOUT, s |-> s_Type_help]>>
                    ELSE <<>>
          /\ last' = [op |-> "init_call", m |-> m, env |-> env, ret |-> r.ret,
                      existed |-> g_ecli_ctx, before |-> Context, prev |-> last.op]
    /\ calls' = <<>>
    /\ emits' = <<>>
    /\ UNCHANGED <<running, g_name, g_address, g_cli_out_head, output_fmt_registry,
                   fds, config, in_loop, reg_calls, file, cb_registry>>

(* ecli_run: -1 without a context; with one, the loop is entered *)
ecli_run(exists) ==
    IF ~exists THEN [ret |-> 0 - 1, entered |-> FALSE]
    ELSE [ret |-> 0, entered |-> TRUE]

(* the application calls ecli_run.  When the loop is entered its       *)
(* iterations are the steps that follow, and ret is what the call      *)
(* returns when the loop ends                                          *)
RunCall ==
    /\ ~in_loop
    /\ \E r \in {ecli_run(g_ecli_ctx)} :
          last' = [op |-> "run_call", ret |-> r.ret, entered |-> r.entered,
                   existed |-> g_ecli_ctx]
    /\ out' = <<>>
    /\ calls' = <<>>
    /\ emits' = <<>>
    /\ UNCHANGED <<mode, running, context_stack, context_depth, current_prompt,
                   g_name, g_address, g_cli_out_head, output_fmt_registry, use_yaml,
                   has_client, client_bev, client_addr, fds, config, in_loop,
                   reg_calls, file, g_ecli_ctx, cb_registry, use_editline>>

(* the loop of ecli_run is running: the last step was the call that    *)
(* entered it or one of its iterations                                 *)
InRun ==
    /\ g_ecli_ctx
    /\ \/ last.op = "run_call" /\ last.entered
       \/ last.op \in {"line", "loop_enter", "loop_return", "accept", "event", "read"}

(* ecli_shutdown: nothing without a context; otherwise the frames, the *)
(* listener, the client's bufferevent (which closes its socket) and    *)
(* the context are freed and g_ecli_ctx is NULL                        *)
Shutdown ==
    /\ ~in_loop
    /\ g_ecli_ctx' = FALSE
    /\ IF g_ecli_ctx
       THEN /\ context_stack' = <<>>
            /\ context_depth' = 0
            /\ current_prompt' = ecli_update_prompt(<<>>, 0)
            /\ has_client' = FALSE
            /\ client_bev' = 0
            /\ client_addr' = NoAddr
            /\ fds' = IF client_bev # 0
                      THEN [fds EXCEPT ![client_bev].state = "closed"] ELSE fds
       ELSE UNCHANGED <<context_stack, context_depth, current_prompt, has_client,
                        client_bev, client_addr, fds>>
    /\ out' = <<>>
    /\ calls' = <<>>
    /\ emits' = <<>>
    /\ last' = [op |-> "shutdown", existed |-> g_ecli_ctx]
    /\ UNCHANGED <<mode, running, g_name, g_address, g_cli_out_head,
                   output_fmt_registry, use_yaml, config, in_loop, reg_calls,
                   file, cb_registry, use_editline>>

(* the lines and the read batches of the sessions *)
LifeLines == { NL(s_hello), NL(s_set), NL(s_end) }
LifeBatches == { <<s_hello>>, <<s_set>> }

NextLife ==
    \/ \E m \in {"STDIN", "TCP"}, env \in InitEnvs : InitCall(m, env)
    \/ RunCall
    \/ Shutdown
    \/ (InRun /\ \E raw \in LifeLines : StdinLine(raw, "ok"))
    \/ (InRun /\ LoopEnter)
    \/ (InRun /\ LoopReturn)
    \/ (InRun /\ \E addr \in PeerAddrs : TcpAccept(addr, TRUE))
    \/ (InRun /\ \E events \in EventSets : TcpEvent(events))
    \/ (InRun /\ \E lines \in LifeBatches : TcpRead(lines, "ok"))

SpecLife == InitYaml /\ [][NextLife]_vars

(* ------------------------------------------------------------------ *)
(* Properties.                                                         *)
(* ------------------------------------------------------------------ *)
(* texts the properties expect, written out *)
x_dump_header == <<"!"," ","r","u","n","n","i","n","g"," ","c","o","n","f","i","g","u","r","a","t","i","o","n","\n">>
x_bang == <<"!","\n">>
x_greeting_open == <<"!"," ","g","r","e","e","t","i","n","g"," ","c","o","n","f","i","g","u","r","a","t","i","o","n","\n">>
x_set_name_Alice == <<"s","e","t"," ","n","a","m","e"," ","A","l","i","c","e","\n">>
x_greeting_end == <<"!"," ","e","n","d"," ","g","r","e","e","t","i","n","g","\n">>
x_network_open == <<"!"," ","n","e","t","w","o","r","k"," ","c","o","n","f","i","g","u","r","a","t","i","o","n","\n">>
x_set_address_ip == <<"s","e","t"," ","a","d","d","r","e","s","s"," ","1","0",".","0",".","0",".","1","\n">>
x_network_end == <<"!"," ","e","n","d"," ","n","e","t","w","o","r","k","\n">>
x_end == <<"!"," ","e","n","d","\n">>
x_G1_open == <<"!"," ","G","1"," ","c","o","n","f","i","g","u","r","a","t","i","o","n","\n">>
x_G1_end == <<"!"," ","e","n","d"," ","G","1","\n">>
x_G2_open == <<"!"," ","G","2"," ","c","o","n","f","i","g","u","r","a","t","i","o","n","\n">>
x_G2_end == <<"!"," ","e","n","d"," ","G","2","\n">>
x_a == <<"a","\n">>
x_b == <<"b","\n">>
x_c == <<"c","\n">>
x_reject_40001 == <<"A","n","o","t","h","e","r"," ","s","e","s","s","i","o","n"," ","i","s"," ","a","c","t","i","v","e"," ","f","r","o","m"," ","1","2","7",".","0",".","0",".","1",":","4","0","0","0","1","\r","\n">>
x_reject_55555 == <<"A","n","o","t","h","e","r"," ","s","e","s","s","i","o","n"," ","i","s"," ","a","c","t","i","v","e"," ","f","r","o","m"," ","1","2","7",".","0",".","0",".","1",":","5","5","5","5","5","\r","\n">>
x_banner_minimal == <<"E","C","L","I"," ","M","i","n","i","m","a","l"," ","E","x","a","m","p","l","e"," ","v","1",".","0",".","0","\r","\n">>
x_show_version == <<"s","h","o","w"," ","v","e","r","s","i","o","n">>
x_show_running_config == <<"s","h","o","w"," ","r","u","n","n","i","n","g","-","c","o","n","f","i","g">>

(* the grammar accepts the string as a complete match *)
Accepted(str) == ec_pnode_matches(ec_parse(str))

(* the handler bound to the leaf a complete match ends at *)
BoundHandler(parse) == Commands[parse.cmd].chain[Len(Commands[parse.cmd].chain)]

(* the last step processed a line the grammar accepts, at depth 0 *)
AcceptedAtTop ==
    /\ last.op = "line"
    /\ last.depth = 0
    /\ last.env # "parse_null"
    /\ Accepted(last.res.line)

Flat(stack, line) == JoinWith(Append(stack, line), <<" ">>)

(* the outcome of a resolution: the terminal state, the parse handed   *)
(* to dispatch and the handler it names                                *)
Outcome(res) ==
    [kind |-> res.kind, parse |-> res.parse,
     handler |-> IF res.kind = "dispatch" THEN <<BoundHandler(res.parse)>> ELSE <<>>]

(* the line of the last step resolves inside its context as its        *)
(* flattened form resolves at depth 0, and invoked that handler        *)
SameOutcomeAsFlat ==
    LET flat == Resolve(<<>>, 0, Flat(last.stack, last.res.line), last.env)
    IN /\ Outcome(flat) = Outcome(last.res)
       /\ calls = Outcome(flat).handler

(* the flattened command of the last step is the line at depth 0, else *)
(* the frames outer to inner joined by single spaces, then the line    *)
FlattenedAsSpecified ==
    last.res.kind \notin {"empty", "end", "exit"} =>
        last.res.full_cmd = IF last.depth = 0 THEN last.res.line
                            ELSE Flat(last.stack, last.res.line)

(* C2 as stated: for every input line X in a session with frames on    *)
(* the stack, resolving X reaches the same outcome as resolving        *)
(* "A B X" at depth 0.                                                 *)
C2_AsStated ==
    (last.op = "line" /\ last.depth > 0) => SameOutcomeAsFlat

(* the line holds a character that is not white space *)
NonBlank(line) == \E i \in 1..Len(line) : line[i] \notin Space

(* C2, amended: for every input line X that holds a non-blank          *)
(* character, is neither end nor exit and whose resolution does not    *)
(* end in entering X as a context, resolving X with frames on the      *)
(* stack reaches the same outcome (same handler on the same parse, or  *)
(* same error) as resolving "A B X" at depth 0; and the flattened      *)
(* command is the line at depth 0, else the frame names outer to inner *)
(* joined by single spaces, then the line.                             *)
C2_ContextTransparency ==
    last.op = "line" =>
        /\ FlattenedAsSpecified
        /\ ( /\ last.depth > 0
             /\ NonBlank(last.res.line)
             /\ last.res.line \notin {s_end, s_exit}
             /\ last.res.kind # "enter" )
              => SameOutcomeAsFlat

(* an argument typed two contexts deep was dispatched as the full command *)
C2_Witness ==
    /\ last.op = "line"
    /\ last.stack = <<s_set, s_address>>
    /\ last.res.line = s_ip1
    /\ last.res.full_cmd = W3(s_set, s_address, s_ip1)
    /\ calls = <<"set_address">>

(* C3: processing the input end at any depth leaves the context stack  *)
(* empty, the depth 0 and the prompt equal to the base prompt, submits *)
(* nothing to the grammar and dispatches no handler, although the      *)
(* grammar holds a command spelled end.                                *)
C3_EndReturnsToTop ==
    (last.op = "line" /\ last.res.line = s_end) =>
        /\ context_stack = <<>>
        /\ context_depth = 0
        /\ current_prompt = config.prompt
        /\ last.res.kind = "end"
        /\ last.res.full_cmd = NULL
        /\ last.res.parse.cmd = 0
        /\ calls = <<>>
        /\ out = <<[to |-> STDOUT, s |-> config.prompt]>>

(* end was processed two contexts deep, and the grammar accepts end *)
C3_Witness ==
    /\ last.op = "line"
    /\ last.res.line = s_end
    /\ last.depth >= 2
    /\ context_depth = 0
    /\ Accepted(s_end)

(* the text is among what the last step wrote *)
Wrote(text) == \E i \in 1..Len(out) : out[i].s = text

(* C4: the input exit at depth > 0 removes the innermost frame only,   *)
(* reducing the depth by exactly 1, and dispatches no handler; at      *)
(* depth 0 exit is not reserved: nothing reports the top level and the *)
(* line goes to the grammar, where it is the alias of quit.            *)
C4_ExitPopsOne ==
    (last.op = "line" /\ last.res.line = s_exit) =>
        IF last.depth > 0
        THEN /\ last.res.kind = "exit"
             /\ context_depth = last.depth - 1
             /\ context_stack = SubSeq(last.stack, 1, Len(last.stack) - 1)
             /\ calls = <<>>
        ELSE /\ last.res.kind = "dispatch"
             /\ last.res.full_cmd = s_exit
             /\ ~Wrote(s_Already_top)
             /\ context_depth = 0
             /\ calls = <<"quit">>

(* exit was processed under two different frames *)
C4_Witness ==
    /\ last.op = "line"
    /\ last.res.line = s_exit
    /\ last.stack = <<s_set, s_address>>
    /\ context_stack = <<s_set>>

(* C5: expand_prefixes on the string a previous expansion returned,    *)
(* and on a command the grammar accepts as written, returns NULL: no   *)
(* expansion occurred.                                                 *)
C5_ExpansionIdempotent ==
    /\ last.op = "expanded_again" => last.expanded = NULL
    /\ (last.op = "expanded" /\ Accepted(last.cmd)) => last.expanded = NULL

(* an abbreviated command was expanded and its expansion expanded again *)
C5_Witness ==
    /\ last.op = "expanded_again"
    /\ last.cmd = x_show_version
    /\ last.expanded = NULL

(* the three registrations of the scenario, in the order given *)
C6_Scenario ==
    reg_calls = << [entry |-> PrintEntry(s_a, s_G1, 20), alloc_ok |-> TRUE],
                   [entry |-> PrintEntry(s_b, s_G1, 10), alloc_ok |-> TRUE],
                   [entry |-> PrintEntry(s_c, s_G2, 5), alloc_ok |-> TRUE] >>

(* what the last step wrote, text by text *)
OutTexts == [i \in 1..Len(out) |-> out[i].s]

(* C6 as stated: with (a, G1, 20), (b, G1, 10), (c, G2, 5) registered, *)
(* the dump invokes the emitters in the order b, a, then c.            *)
C6_AsStated ==
    (last.op = "dump" /\ C6_Scenario) => emits = <<s_b, s_a, s_c>>

(* C6, amended: with (a, G1, 20), (b, G1, 10), (c, G2, 5) registered,  *)
(* the dump invokes the emitters in ascending priority over the whole  *)
(* registry: c under G2 first, then b and a under G1, each group's     *)
(* entries between a group-open and a group-close marker.              *)
C6_DumpOrder ==
    (last.op = "dump" /\ C6_Scenario) =>
        /\ emits = <<s_c, s_b, s_a>>
        /\ OutTexts = <<x_dump_header, x_bang,
                        x_G2_open, x_c, x_G2_end,
                        x_G1_open, x_b, x_a, x_G1_end,
                        x_bang, x_end>>

(* the scenario's registry was dumped *)
C6_Witness ==
    /\ last.op = "dump"
    /\ C6_Scenario
    /\ Len(emits) = 3

(* the last step ran a dump command with name Alice and address 10.0.0.1 *)
C7_Scenario ==
    /\ last.op = "line"
    /\ calls \in {<<"write_terminal">>, <<"show_running_config">>, <<"show_run">>}
    /\ g_name = s_Alice
    /\ g_address = s_ip1

(* the lines of the dump: what the step wrote before the prompt *)
DumpLines == SubSeq(OutTexts, 1, Len(out) - 1)

Registered ==
    LET ok == SelectSeq(reg_calls, LAMBDA c : c.alloc_ok)
    IN [i \in 1..Len(ok) |-> ok[i].entry]

(* the position of an entry among the registered ones *)
RegisteredAt(e) == CHOOSE k \in 1..Len(Registered) : Registered[k] = e

(* C8: after any sequence of ecli_out_register calls the registry is   *)
(* in ascending priority, entries of equal priority are in the order   *)
(* of their registration, and it holds every entry whose registration  *)
(* obtained its memory exactly once and nothing else.                  *)
C8_RegistrySorted ==
    LET head == g_cli_out_head
    IN /\ \A i, j \in 1..Len(head) : i < j => head[i].priority <= head[j].priority
       /\ Len(head) = Len(Registered)
       /\ \A k \in 1..Len(Registered) :
             Cardinality({ i \in 1..Len(head) : head[i] = Registered[k] }) = 1
       /\ \A i, j \in 1..Len(head) :
             (i < j /\ head[i].priority = head[j].priority)
                => RegisteredAt(head[i]) < RegisteredAt(head[j])

(* two entries of equal priority registered before one of lower priority *)
C8_Witness ==
    /\ Len(g_cli_out_head) = 3
    /\ Len(Registered) = 3
    /\ Registered[1].priority = Registered[2].priority
    /\ Registered[3].priority < Registered[1].priority
    /\ g_cli_out_head = <<Registered[3], Registered[1], Registered[2]>>

(* the rejection notice for a peer address, written out *)
ExpectedNotice(addr) ==
    IF addr.port = <<156, 65>> THEN x_reject_40001 ELSE x_reject_55555

(* C9: while a client A is attached, a connection attempt B is written *)
(* a rejection notice naming the address A connected from and is       *)
(* closed; the attached client handle, the stored address, the context *)
(* stack, the depth and the prompt are unchanged and A's connection    *)
(* stays attached.                                                     *)
C9_RejectionLeavesSession ==
    [][ (has_client /\ last'.op = "accept") =>
           /\ out' = <<[to |-> last'.fd, s |-> ExpectedNotice(fds[client_bev].addr)]>>
           /\ fds'[last'.fd].state = "closed"
           /\ fds'[client_bev].state = "attached"
           /\ UNCHANGED <<has_client, client_bev, client_addr, context_stack,
                          context_depth, current_prompt,
                   file, g_ecli_ctx, cb_registry, use_editline>> ]_vars

(* a peer was rejected while a client from another address sat in a context *)
C9_Witness ==
    /\ last.op = "accept"
    /\ last.had_client
    /\ last.addr # client_addr
    /\ context_depth > 0
    /\ fds[last.fd].state = "closed"

(* the connections that are attached *)
Attached == { i \in 1..Len(fds) : fds[i].state = "attached" }

(* what an admitted connection is sent: the banner when one is         *)
(* configured, then the prompt                                         *)
Greeting(fd) ==
    (IF config.banner # NULL THEN <<[to |-> fd, s |-> x_banner_minimal]>> ELSE <<>>)
    \o <<[to |-> fd, s |-> current_prompt]>>

(* C10: at most one client is attached at any time; a disconnect (EOF  *)
(* or error) clears the client reference and closes the connection;    *)
(* and a connection attempt made while no client is attached is never  *)
(* rejected: when its bufferevent is obtained it is attached and sent  *)
(* the banner, when one is configured, and the prompt.                 *)
C10_OneClient ==
    /\ Cardinality(Attached) <= 1
    /\ has_client <=> client_bev # 0
    /\ Attached = IF client_bev # 0 THEN {client_bev} ELSE {}
    /\ (last.op = "event" /\ last.events \cap {"BEV_EVENT_EOF", "BEV_EVENT_ERROR"} # {})
          => /\ ~has_client
             /\ client_bev = 0
             /\ fds[last.bev].state = "closed"
    /\ (last.op = "accept" /\ ~last.had_client)
          => IF last.alloc_ok
             THEN /\ has_client
                  /\ client_bev = last.fd
                  /\ client_addr = last.addr
                  /\ out = Greeting(last.fd)
             ELSE out = <<>> /\ ~has_client

(* a second client was admitted after the first one disconnected *)
C10_Witness ==
    /\ last.op = "accept"
    /\ last.fd = 2
    /\ fds[1].bev
    /\ fds[1].state = "closed"
    /\ client_bev = 2
    /\ has_client
    /\ out = Greeting(2)

(* the session is at the top level and the application state is the   *)
(* one a new process starts with                                       *)
FreshDefault(cli) ==
    /\ cli.context_depth = 0
    /\ cli.g_name = s_world
    /\ cli.g_address = <<>>

(* the last operation replayed the saved file in a new process, before *)
(* any line was typed                                                  *)
ReplayedSaved ==
    /\ last.op = "load"
    /\ last.ctx
    /\ last.env = "ok"
    /\ file # NULL
    /\ last.content = file
    /\ FreshDefault(last.before)

(* C11: round trip.  When the file a session saved with                *)
(* ecli_dump_running_config is replayed by ecli_load_config in a new   *)
(* process, from the default application state at the top level, no    *)
(* line of it fails and the dump of the state the replay leaves is the *)
(* file that was replayed.                                             *)
C11_RoundTrip ==
    ReplayedSaved
    => /\ last.ret = 0
       /\ Flatten(ecli_dump_running_config(Session, g_cli_out_head).texts) = file

(* a saved file that sets the name and the address has been replayed *)
C11_Witness ==
    /\ ReplayedSaved
    /\ last.cmd_count = 2
    /\ g_name = s_Alice
    /\ g_address = s_ip1

(* the last operation replayed a file that could be opened *)
Replayed ==
    /\ last.op = "load"
    /\ last.ctx
    /\ last.content # NULL

(* a line of only spaces and tabs, with or without its line terminator *)
BlankLine(line) == LTrim(line) \in {<<>>, <<"\n">>, <<"\r", "\n">>}

(* a line whose first character after the spaces and tabs is ! or # *)
CommentLine(line) == LTrim(line) # <<>> /\ LTrim(line)[1] \in {"!", "#"}

(* the numbers of the lines the replay handed to execute_command, and  *)
(* of those it reported as failed                                      *)
ExecutedLines == { last.executed[i].line_num : i \in 1..Len(last.executed) }
FailedLines == { last.errors[i].line_num : i \in 1..Len(last.errors) }

(* C12: during a replay every blank line and every comment line is     *)
(* skipped: it is neither executed nor counted as failed.              *)
C12_AsStated ==
    Replayed
    => \A n \in 1..Len(fgets(last.content)) :
          (BlankLine(fgets(last.content)[n]) \/ CommentLine(fgets(last.content)[n]))
          => n \notin ExecutedLines \cup FailedLines

(* C13: during a replay every line that is executed, other than end    *)
(* and exit, is resolved and dispatched as process_line resolves and   *)
(* dispatches the same line typed in the same session state: it        *)
(* reaches a handler exactly when the typed line does, abbreviations   *)
(* included, and the same one.                                         *)
C13_AsStated ==
    (Replayed /\ last.env = "ok")
    => \A i \in 1..Len(last.executed) :
          last.executed[i].p \notin {s_end, s_exit}
          => /\ last.executed[i].calls
                = process_line(last.executed[i].before, last.executed[i].p, "ok").calls
             /\ (last.executed[i].why = "ok")
                = (process_line(last.executed[i].before, last.executed[i].p,
                                "ok").res.kind = "dispatch")

(* the entries of the replay whose execution failed: the parse failed, *)
(* the line matched no command, or no handler ran and returned success *)
FailedEntries ==
    { i \in 1..Len(last.executed) :
        last.executed[i].why \in {"parse error", "unknown command", "command failed"} }

(* C14: ecli_load_config does not stop at a failing line.  With a      *)
(* session and a file that opens, every line that is neither blank nor *)
(* a comment is executed, a line fails exactly when it does not end in *)
(* a handler returning success, and the value returned is the number   *)
(* of failed lines, 0 when none failed.  Without a session, or when    *)
(* the file cannot be opened, it returns -1, executes nothing, writes  *)
(* nothing and leaves the session and the application state alone.     *)
C14_LoadCounts ==
    last.op = "load"
    => IF ~last.ctx \/ last.content = NULL
       THEN /\ last.ret = -1
            /\ last.executed = <<>>
            /\ calls = <<>>
            /\ out = <<>>
            /\ Session = last.before
       ELSE /\ \A n \in 1..Len(fgets(last.content)) :
                  ~(BlankLine(fgets(last.content)[n]) \/ CommentLine(fgets(last.content)[n]))
                  => n \in ExecutedLines
            /\ \A i \in 1..Len(last.executed) :
                  /\ (i \notin FailedEntries) = (last.executed[i].ret = 0)
                  /\ (i \notin FailedEntries) => Len(last.executed[i].calls) = 1
            /\ last.ret = Cardinality(FailedEntries)
            /\ FailedLines = { last.executed[i].line_num : i \in FailedEntries }

(* a file has been replayed in which lines succeed after lines that    *)
(* failed, one of them through a handler that returned failure         *)
C14_Witness ==
    /\ Replayed
    /\ last.ret = 5
    /\ g_name = s_Bob
    /\ \E i, j \in 1..Len(last.executed) :
          /\ i < j
          /\ last.executed[i].why = "command failed"
          /\ last.executed[i].calls = <<"vhost_del">>
          /\ last.executed[j].why = "unknown command"
    /\ \E i, j \in 1..Len(last.executed) :
          /\ i < j
          /\ last.executed[i].why = "unknown command"
          /\ last.executed[j].why = "ok"

(* the terminal states of process_line *)
TerminalStates ==
    {"empty", "end", "exit", "parse_error", "dispatch", "enter", "unknown"}

(* the one write of ecli_prompt *)
PromptWrite == [to |-> STDOUT, s |-> current_prompt]

(* C15: a line that fails to match is not fatal.  Whatever the line    *)
(* and the session, process_line ends in one of its terminal states;   *)
(* the prompt is written once, as the last output, behind the error    *)
(* message if there is one; at most one handler is run, once, also     *)
(* when the line was expanded; and when the line matched nothing the   *)
(* session is left as it was, still running, so that the loop of       *)
(* ecli_run reads the next line.                                       *)
C15_MatchFailureNotFatal ==
    last.op = "line"
    => /\ last.res.kind \in TerminalStates
       /\ out # <<>>
       /\ out[Len(out)] = PromptWrite
       /\ Cardinality({ i \in 1..Len(out) : out[i] = PromptWrite }) = 1
       /\ Len(calls) <= 1
       /\ (last.res.kind # "dispatch" => calls = <<>>)
       /\ (last.res.kind \in {"parse_error", "unknown"}
           => /\ Len(out) = 2
              /\ IsPrefix(s_Error, out[1].s)
              /\ running
              /\ context_stack = last.stack
              /\ context_depth = last.depth
              /\ ENABLED Next)

(* a line typed inside a context matched nothing, expanded or not *)
C15_Witness ==
    /\ last.op = "line"
    /\ last.res.kind = "unknown"
    /\ last.depth > 0
    /\ out = ecli_err(s_Unknown_command \o last.res.line \o s_nl) \o <<PromptWrite>>

(* a line of nothing but spaces, tabs, CR and LF *)
WhiteLine(raw) == \A i \in 1..Len(raw) : raw[i] \in {" ", "\t", "\r", "\n"}

(* C16: a line that is empty once the whitespace is trimmed (the empty *)
(* string, a lone line terminator, any run of spaces, tabs, CR and LF) *)
(* only makes process_line write the prompt again: it is not parsed,   *)
(* nothing is expanded or entered, no handler runs and no error is     *)
(* reported.                                                           *)
C16_AsStated ==
    (last.op = "line" /\ WhiteLine(last.raw))
    => /\ last.res.kind = "empty"
       /\ out = <<PromptWrite>>
       /\ calls = <<>>
       /\ context_stack = last.stack
       /\ context_depth = last.depth

(* the symbolic name of the leaf a parse tree matched, NULL without one *)
LeafName(parse) == Commands[parse.cmd].names[Len(Commands[parse.cmd].names)]

(* the entries the table holds under a name *)
EntriesOf(registry, name) == { i \in 1..Len(registry) : registry[i].name = name }

(* C17: in symbolic mode a matched line is dispatched through the      *)
(* name-to-handler table: the handler registered under the symbolic    *)
(* name of the matched leaf is the one invoked; when the leaf has no   *)
(* name, or the table holds no handler under it, no handler is invoked *)
(* and the no-handler error is reported.                               *)
C17_SymbolicDispatch ==
    (last.op = "line" /\ use_yaml /\ last.res.kind = "dispatch")
    => IF LeafName(last.res.parse) # NULL
          /\ EntriesOf(cb_registry, LeafName(last.res.parse)) # {}
       THEN /\ \A i \in EntriesOf(cb_registry, LeafName(last.res.parse)) :
                  calls = <<cb_registry[i].callback>>
            /\ \A k \in 1..Len(out) : <<out[k]>> # ecli_err(s_No_handler)
       ELSE /\ calls = <<>>
            /\ Len(out) = 3
            /\ IsPrefix(s_Error, out[1].s)
            /\ <<out[2]>> = ecli_err(s_No_handler)
            /\ out[3] = PromptWrite

(* the line hello has been dispatched to the handler registered under  *)
(* its name, which is not the one the compiled-in grammar binds to it  *)
C17_Witness ==
    /\ last.op = "line"
    /\ use_yaml
    /\ last.res.kind = "dispatch"
    /\ last.res.line = s_hello
    /\ calls = <<"show_version">>

(* C18: ecli_yaml_register keeps one entry per name and the last       *)
(* successful registration wins.  A call with a NULL name or a NULL    *)
(* handler returns -1; a call that returns -1 leaves the table as it   *)
(* was; a call that returns 0 leaves the name bound to the handler it  *)
(* was given and every other name bound as before; and the table never *)
(* holds two entries of one name.                                      *)
C18_RegisterOverwrites ==
    [][ last'.op = "yaml_register"
        => /\ last'.ret \in {0, -1}
           /\ (last'.name = NULL \/ last'.callback = NoCb) => last'.ret = -1
           /\ last'.ret = -1 => cb_registry' = cb_registry
           /\ last'.ret = 0
              => /\ EntriesOf(cb_registry', last'.name) # {}
                 /\ \A i \in EntriesOf(cb_registry', last'.name) :
                       cb_registry'[i].callback = last'.callback
                 /\ { cb_registry'[i] : i \in 1..Len(cb_registry') } \ { [name |-> last'.name, callback |-> last'.callback] }
                    = { e \in { cb_registry[i] : i \in 1..Len(cb_registry) } :
                          e.name # last'.name }
           /\ \A i, j \in 1..Len(cb_registry') :
                 cb_registry'[i].name = cb_registry'[j].name => i = j ]_vars

(* a name that was bound has been registered again with another        *)
(* handler, beside a second name                                       *)
C18_Witness ==
    /\ last.op = "yaml_register"
    /\ last.ret = 0
    /\ Len(cb_registry) = 2
    /\ \E i \in EntriesOf(last.before, last.name) :
          last.before[i].callback # last.callback

(* the handlers the lookup of the session's mode gives for a matched   *)
(* parse tree: the table entry of the leaf's name in symbolic mode,    *)
(* the callback attribute of the compiled-in grammar in direct mode    *)
ModeCalls(parse) ==
    IF use_yaml
    THEN (IF LeafName(parse) # NULL /\ EntriesOf(cb_registry, LeafName(parse)) # {}
          THEN <<cb_registry[CHOOSE i \in EntriesOf(cb_registry, LeafName(parse)) : TRUE]
                   .callback>>
          ELSE <<>>)
    ELSE <<Commands[parse.cmd].chain[Len(Commands[parse.cmd].chain)]>>

(* C19: the mode ecli_init selected when the grammar was loaded is the *)
(* mode of every dispatch of the session: a matched line is dispatched *)
(* through the lookup of that mode on the stdin path, with or without  *)
(* expansion, in the editline loop and in a replay.                    *)
C19_AsStated ==
    /\ (last.op = "ecli_init" => use_yaml = last.yaml_loaded)
    /\ (last.op = "line" /\ last.res.kind = "dispatch"
        => calls = ModeCalls(last.res.parse))
    /\ (last.op = "editline" /\ last.kind = "dispatch"
        => calls = ModeCalls(last.parse))
    /\ (last.op = "load"
        => \A i \in 1..Len(last.executed) :
              last.executed[i].parse.cmd # 0
              => last.executed[i].calls = ModeCalls(last.executed[i].parse))

(* the words of the notice of a failed command *)
x_command_failed == <<"c","o","m","m","a","n","d"," ","f","a","i","l","e","d">>

(* the text holds the words somewhere *)
Holds(text, words) ==
    \E i \in 1..(Len(text) - Len(words) + 1) :
       SubSeq(text, i, i + Len(words) - 1) = words

(* C20: when process_line found the handler of a matched line, the     *)
(* no-handler error is not reported, whatever the handler returned;    *)
(* when the handler returned failure (as vhost del does for a host     *)
(* that does not exist) a notice that the command failed is written    *)
(* behind the handler's own message; and the prompt is written last.   *)
C20_AsStated ==
    (last.op = "line" /\ last.res.kind = "dispatch" /\ calls # <<>>)
    => /\ out[Len(out)] = PromptWrite
       /\ \A k \in 1..Len(out) : <<out[k]>> # ecli_err(s_No_handler)
       /\ (calls = <<"vhost_del">>
           => \E k \in 1..Len(out) : Holds(out[k].s, x_command_failed))

(* the overrides in force for a binding name: the formats of the       *)
(* entries the override table holds under it                           *)
OverridesOf(registry, name) ==
    { registry[k].fmt : k \in { j \in 1..Len(registry) :
                                  /\ registry[j].callback_name = name
                                  /\ registry[j].fmt # NULL } }

(* C21: a dump hands each binding's output function the override       *)
(* template when the override table holds one under the binding's      *)
(* name, and the binding's compiled-in template otherwise; and neither *)
(* loading an override file nor dumping changes the output registry:   *)
(* every binding keeps its default template, group, priority and       *)
(* position.                                                           *)
C21_OverrideForOneDump ==
    [][ /\ last'.op \in {"dump", "load_formats"} => g_cli_out_head' = g_cli_out_head
        /\ last'.op = "dump"
           => /\ Len(last'.fmts) = Len(g_cli_out_head)
              /\ \A i \in 1..Len(g_cli_out_head) :
                    /\ OverridesOf(output_fmt_registry, g_cli_out_head[i].name) \in
                          { {}, {last'.fmts[i]} }
                    /\ OverridesOf(output_fmt_registry, g_cli_out_head[i].name) = {}
                       => last'.fmts[i] = g_cli_out_head[i].default_fmt ]_vars

(* a dump in which one binding got its override and another, with no   *)
(* override under its name, its compiled-in template, while an         *)
(* override is loaded for a name that is not bound                     *)
C21_Witness ==
    /\ last.op = "dump"
    /\ Len(g_cli_out_head) = 2
    /\ \E i, j \in 1..2 :
          /\ last.fmts[i] = s_fmt_two
          /\ g_cli_out_head[i].default_fmt # s_fmt_two
          /\ last.fmts[j] = g_cli_out_head[j].default_fmt
    /\ OverridesOf(output_fmt_registry, s_c) # {}

(* a piece of a template that is a placeholder, and its name *)
IsPlaceholder(piece) ==
    Len(piece) >= 2 /\ piece[1] = "{" /\ piece[Len(piece)] = "}"

NameOf(piece) == SubSeq(piece, 2, Len(piece) - 1)

(* the parameters supplied under a name *)
Supplied(params, name) == { i \in 1..Len(params) : params[i].name = name }

(* the textual forms of the values the argument lists hold, written out *)
Shown(param) ==
    IF param.type = "ECLI_FMT_STR"
    THEN (IF param.val = NULL THEN <<"(", "n", "u", "l", "l", ")">> ELSE param.val)
    ELSE IF param.num = 0 - 50 THEN <<"-", "5", "0">>
    ELSE IF param.num = 7 THEN <<"7">>
    ELSE IF param.num = 0 THEN <<"0">>
    ELSE IF param.num = 2147483647 THEN <<"2", "1", "4", "7", "4", "8", "3", "6", "4", "7">>
    ELSE <<>>

(* the template with every placeholder a parameter of params resolves  *)
(* replaced by the text of the first parameter of that name            *)
Substituted(pieces, params) ==
    Flatten([k \in 1..Len(pieces) |->
               IF IsPlaceholder(pieces[k]) /\ Supplied(params, NameOf(pieces[k])) # {}
               THEN Shown(params[CHOOSE i \in Supplied(params, NameOf(pieces[k])) :
                                   \A j \in Supplied(params, NameOf(pieces[k])) : i <= j])
               ELSE pieces[k]])

(* the parameters ecli_out_fmt can resolve: the first                  *)
(* ECLI_FMT_MAX_PARAMS of the list, under names that fit name_buf      *)
Resolvable(params) ==
    SelectSeq(SubSeq(params, 1, Min(Len(params), ECLI_FMT_MAX_PARAMS)),
              LAMBDA q : Len(q.name) < FMT_NAME_SIZE)

(* the text the last call wrote *)
Written == Flatten([k \in 1..Len(out) |-> out[k].s])

(* C22 as stated: whatever the template and the parameters, the call   *)
(* returns and writes the template with every placeholder whose name   *)
(* was supplied replaced by the text of its value, every other         *)
(* placeholder and all text outside placeholders copied as they are.   *)
C22_AsStated ==
    last.op = "fmt"
    => /\ last.outcome = "returned"
       /\ Written = Substituted(last.pieces, last.params)

(* C22: ecli_out_fmt writes the template with every placeholder        *)
(* resolved by one of the first ECLI_FMT_MAX_PARAMS parameters, under  *)
(* a name shorter than 64 bytes, replaced by the text of the first     *)
(* parameter of that name according to its type tag, every other       *)
(* placeholder copied with its braces and all other text copied in     *)
(* order, whenever that text is shorter than the 1023 bytes the output *)
(* buffer holds: the call then returns with the cursor behind the      *)
(* text.  A longer text is cut: what a returning call writes is its    *)
(* first 1022 or 1023 bytes.                                           *)
C22_Substitution ==
    last.op = "fmt"
    => /\ Len(Substituted(last.pieces, Resolvable(last.params))) < out_end
          => /\ last.outcome = "returned"
             /\ Written = Substituted(last.pieces, Resolvable(last.params))
             /\ last.cursor = Len(Written)
       /\ last.outcome = "returned"
          => /\ IsPrefix(Written, Substituted(last.pieces, Resolvable(last.params)))
             /\ Len(Substituted(last.pieces, Resolvable(last.params))) >= out_end
                => Len(Written) \in {out_end - 1, out_end}

(* a template of text, a placeholder resolved by an int parameter and  *)
(* a placeholder no parameter resolves has been written                *)
C22_Witness ==
    /\ last.op = "fmt"
    /\ last.outcome = "returned"
    /\ last.pieces = <<s_set \o <<" ">>, <<"{", "n", "}">>, <<"{", "x", "}">>>>
    /\ Written = <<"s", "e", "t", " ", "-", "5", "0", "{", "x", "}">>

(* the handlers a step invoked include quit *)
CalledQuit == \E i \in 1..Len(calls) : calls[i] = "quit"

C24_AsStated ==
    (last.op = "accept" /\ ~last.had_client /\ client_bev = last.fd)
    => /\ context_depth = 0
       /\ context_stack = <<>>
       /\ current_prompt = config.prompt
       /\ out[Len(out)].s = config.prompt

(* C25: ecli_exit_context on an empty stack returns -1, writes         *)
(* "Already at top level" and changes nothing: the stack, the depth    *)
(* and the prompt are as before.  On a non-empty stack it removes the  *)
(* innermost frame only, the depth goes down by one, nothing is        *)
(* written and it returns 0.                                           *)
C25_ExitOne ==
    [][ last'.op = "exit_one"
        => IF context_stack = <<>>
           THEN /\ last'.ret = -1
                /\ out' = <<[to |-> STDOUT,
                             s |-> <<"A", "l", "r", "e", "a", "d", "y", " ", "a", "t", " ",
                                     "t", "o", "p", " ", "l", "e", "v", "e", "l", "\n">>]>>
                /\ UNCHANGED <<context_stack, context_depth, current_prompt>>
           ELSE /\ last'.ret = 0
                /\ out' = <<>>
                /\ context_stack' = SubSeq(context_stack, 1, Len(context_stack) - 1)
                /\ context_depth' = context_depth - 1 ]_vars

(* ecli_exit_context has been called on the empty stack *)
C25_Witness ==
    /\ last.op = "exit_one"
    /\ last.before.context_stack = <<>>
    /\ last.ret = -1
    /\ Wrote(s_Already_top)
    /\ context_depth = 0

(* the line is one word that is a registered context group *)
BareKeyword(line) ==
    /\ \A i \in 1..Len(line) : line[i] \notin {" ", "\t"}
    /\ line \in g_context_groups

(* the last step processed a line that is not empty and not reserved,  *)
(* that ec_parse parsed, and that neither as typed nor after           *)
(* abbreviation expansion is a complete match of the grammar           *)
FellThrough ==
    /\ last.op = "line"
    /\ last.res.line \notin {<<>>, s_end}
    /\ ~(last.res.line = s_exit /\ last.depth > 0)
    /\ last.env # "parse_null"
    /\ ~Accepted(Flat(last.stack, last.res.line))
    /\ \/ expand_prefixes(Flat(last.stack, last.res.line)) = NULL
       \/ last.env = "exp_parse_null"
       \/ ~Accepted(expand_prefixes(Flat(last.stack, last.res.line)))

(* C26: process_line pushes a frame only for a line that fell through  *)
(* parsing and expansion without a complete match and that is one bare *)
(* word equal to a registered context group.  For such a line exactly  *)
(* one frame of that name is pushed (none when the allocation fails),  *)
(* no handler runs and only the prompt is written; for every other     *)
(* line that fell through, the stack is unchanged, no handler runs and *)
(* "Unknown command" is reported before the prompt.                    *)
C26_ContextEntryFallback ==
    last.op = "line"
    => /\ context_stack # last.stack /\ Len(context_stack) >= Len(last.stack)
          => FellThrough /\ BareKeyword(last.res.line)
       /\ (FellThrough /\ BareKeyword(last.res.line))
          => /\ calls = <<>>
             /\ out = <<PromptWrite>>
             /\ IF last.env = "enter_nomem"
                THEN context_stack = last.stack /\ context_depth = last.depth
                ELSE /\ context_stack = Append(last.stack, last.res.line)
                     /\ context_depth = last.depth + 1
       /\ (FellThrough /\ ~BareKeyword(last.res.line))
          => /\ calls = <<>>
             /\ context_stack = last.stack
             /\ context_depth = last.depth
             /\ out = ecli_err(s_Unknown_command \o last.res.line \o s_nl)
                      \o <<PromptWrite>>

(* inside the context set, the bare group keyword address has been     *)
(* entered as a second frame                                           *)
C26_Witness ==
    /\ last.op = "line"
    /\ FellThrough
    /\ last.stack = <<s_set>>
    /\ context_stack = <<s_set, s_address>>
    /\ calls = <<>>

RECURSIVE Adopted(_, _)
(* the words the per-token rule leaves for the first n tokens: token n *)
(* is replaced by the completion of (the words so far, a space, the    *)
(* token) when there is exactly one, and kept when there is none or    *)
(* more than one                                                       *)
Adopted(toks, n) ==
    IF n = 0 THEN <<>>
    ELSE LET before == Adopted(toks, n - 1)
             asked == IF n = 1 THEN toks[1]
                      ELSE JoinWith(before, <<" ">>) \o <<" ">> \o toks[n]
             cand == ec_complete(asked)
         IN Append(before, IF Cardinality(cand) = 1 THEN CHOOSE s \in cand : TRUE
                           ELSE toks[n])

(* what the rule returns for a command string: the words joined by one *)
(* space when a token changed, NULL otherwise                          *)
Reconstructed(cmd) ==
    LET toks == Split(cmd, {" ", "\t"})
        words == Adopted(toks, Len(toks))
    IN IF words # toks THEN JoinWith(words, <<" ">>) ELSE NULL

(* C27: expand_prefixes takes the blank-delimited tokens in order,     *)
(* replaces a token by the completion of (result so far + " " + token) *)
(* only when exactly one completion exists and keeps it otherwise, and *)
(* returns the reconstructed string only if a token changed, NULL      *)
(* otherwise; process_line expands a line once: what it dispatches is  *)
(* the line as typed or the string of that one expansion, and a line   *)
(* whose one expansion is no complete match is not resolved further.   *)
C27_PerTokenExpansion ==
    /\ last.op \in {"expanded", "expanded_again"}
       => last.expanded = Reconstructed(last.cmd)
    /\ (last.op = "resolved" /\ last.cmd # s_end)
       => IF Accepted(last.cmd)
          THEN /\ last.res.kind = "dispatch"
               /\ last.res.parse = ec_parse(last.cmd)
          ELSE IF /\ Reconstructed(last.cmd) # NULL
                  /\ Accepted(Reconstructed(last.cmd))
                  /\ last.env = "ok"
          THEN /\ last.res.kind = "dispatch"
               /\ last.res.expanded = Reconstructed(last.cmd)
               /\ last.res.parse = ec_parse(Reconstructed(last.cmd))
          ELSE last.res.kind \in {"enter", "unknown"}

(* "sh r" was handed to expand_prefixes: sh has one completion and is *)
(* replaced, r has two after show and is kept                          *)
C27_Witness ==
    /\ last.op = "expanded"
    /\ last.cmd = W2(s_sh, <<"r">>)
    /\ Cardinality(ec_complete(W2(s_show, <<"r">>))) = 2
    /\ last.expanded = W2(s_show, <<"r">>)

(* C28: the recorded depth is the number of frames on the stack and is *)
(* never negative, whatever sequence of enter, exit-one and exit-all   *)
(* led here, called directly or by process_line for end, exit and a    *)
(* bare group keyword.  A successful ecli_enter_context appends its    *)
(* frame and adds exactly 1 to the depth; when its allocation fails    *)
(* it returns -1 and the stack, the depth and the prompt are as before.*)
C28_DepthCountsFrames ==
    /\ context_depth = Len(context_stack)
    /\ context_depth >= 0
    /\ last.op = "enter"
       => IF last.alloc_ok
          THEN /\ last.ret = 0
               /\ context_stack = Append(last.before.context_stack, last.context)
               /\ context_depth = last.before.context_depth + 1
          ELSE /\ last.ret = -1
               /\ Frames = last.before
    /\ (last.op = "line" /\ last.res.kind = "enter")
       => IF last.env # "enter_nomem"
          THEN /\ context_stack = Append(last.stack, last.res.line)
               /\ context_depth = last.depth + 1
          ELSE /\ context_stack = last.stack
               /\ context_depth = last.depth
               /\ current_prompt = ecli_update_prompt(last.stack, last.depth)

(* inside a context, an enter whose allocation failed has returned *)
C28_Witness ==
    /\ last.op = "enter"
    /\ ~last.alloc_ok
    /\ last.ret = -1
    /\ last.before.context_depth = 1
    /\ context_stack = last.before.context_stack
    /\ current_prompt # config.prompt

(* the base prompt without its trailing mode glyph: a '>' or '#' that  *)
(* is the last character but one goes with the character after it,    *)
(* one that is the last character goes alone                           *)
Stripped(base) ==
    IF Len(base) >= 2 /\ base[Len(base) - 1] \in {">", "#"}
    THEN SubSeq(base, 1, Len(base) - 2)
    ELSE IF Len(base) >= 1 /\ base[Len(base)] \in {">", "#"}
         THEN SubSeq(base, 1, Len(base) - 1)
         ELSE base

(* the frame names, outermost first, joined by "-" *)
PathOf(stack) == JoinWith(stack, <<"-">>)

(* C29 as stated: in every state the prompt is the base prompt at      *)
(* depth 0, and otherwise the base prompt without its trailing glyph,  *)
(* then "(", the frame names joined by "-", and ")> ".                 *)
C29_AsStated ==
    current_prompt =
        IF context_stack = <<>> THEN config.prompt
        ELSE Stripped(config.prompt) \o <<"(">> \o PathOf(context_stack)
             \o <<")", ">", " ">>

(* C29, amended: in every state the prompt is the base prompt (its     *)
(* first 255 bytes) at depth 0; otherwise it is made of the first 63   *)
(* bytes of the base prompt without their trailing glyph, cut to 59    *)
(* bytes, then "(", the first 127 bytes of the frame names joined by   *)
(* "-", and ")> ".  Every operation that changes the stack leaves the  *)
(* prompt so.                                                          *)
C29_PromptRule ==
    current_prompt =
        IF context_stack = <<>> THEN Take(config.prompt, PROMPT_SIZE - 1)
        ELSE Take(Stripped(Take(config.prompt, BASE_SIZE - 1)), BASE_SIZE - 5)
             \o <<"(">> \o Take(PathOf(context_stack), CONTEXT_PATH_SIZE - 1)
             \o <<")", ">", " ">>

(* two frames under the base prompt "cli> ": the glyph and the blank   *)
(* after it are gone and the names are joined outermost first          *)
C29_Witness ==
    /\ last.op = "enter"
    /\ config.prompt = s_prompt_cli
    /\ context_stack = <<s_set, s_show>>
    /\ current_prompt = <<"c", "l", "i", "(", "s", "e", "t", "-", "s", "h", "o", "w",
                          ")", ">", " ">>

(* the positions of the registry where a run of adjacent bindings of   *)
(* one group starts, and where one ends                                *)
RunStarts(head) ==
    { i \in 1..Len(head) : i = 1 \/ head[i - 1].group # head[i].group }

RunEnds(head) ==
    { i \in 1..Len(head) : i = Len(head) \/ head[i + 1].group # head[i].group }

(* what a dump writes for the binding at position i when every run of  *)
(* adjacent same-group bindings is a block of its own                  *)
BlockLines(head, i) ==
    (IF i \in RunStarts(head)
     THEN << <<"!", " ">> \o head[i].group \o s_configuration_nl >> ELSE <<>>)
    \o << head[i].name \o <<"\n">> >>
    \o (IF i \in RunEnds(head)
        THEN << <<"!", " ", "e", "n", "d", " ">> \o head[i].group \o <<"\n">> >>
        ELSE <<>>)

(* the three bindings are registered: a and c in G1 at priorities 5    *)
(* and 20, b in G2 at priority 10 between them                         *)
C30_Scenario ==
    /\ Len(g_cli_out_head) = 3
    /\ \E i, j, k \in 1..3 :
          /\ g_cli_out_head[i] = PrintEntry(s_a, s_G1, 5)
          /\ g_cli_out_head[j] = PrintEntry(s_b, s_G2, 10)
          /\ g_cli_out_head[k] = PrintEntry(s_c, s_G1, 20)

OpenOf(group) == s_bang_sp \o group \o s_configuration_nl
CloseOf(group) == s_bang_end_sp \o group \o s_nl

IsOpen(text) == \E g \in OutGroups : text = OpenOf(g)
IsClose(text) == \E g \in OutGroups : text = CloseOf(g)
IsMarker(text) == IsOpen(text) \/ IsClose(text)

(* the marker lines of the last dump, in the order written *)
Markers == SelectSeq(OutTexts, IsMarker)

(* the markers come in pairs: an open marker, then the close marker of *)
(* the same group, before the next open marker or the end              *)
Bracketed ==
    /\ Len(Markers) % 2 = 0
    /\ \A k \in 1..Len(Markers) :
          k % 2 = 1 => \E g \in OutGroups : /\ Markers[k] = OpenOf(g)
                                            /\ Markers[k + 1] = CloseOf(g)

(* where the emitter of the binding at position i of the registry wrote *)
EmitPos(i) ==
    CHOOSE k \in 1..Len(out) : out[k].s = g_cli_out_head[i].name \o <<"\n">>

(* the emitter of binding i wrote between an open marker and the close *)
(* marker of group g with no other marker in between                   *)
InsideBlock(i, g) ==
    \E o, c \in 1..Len(out) :
        /\ o < EmitPos(i) /\ EmitPos(i) < c
        /\ out[o].s = OpenOf(g)
        /\ out[c].s = CloseOf(g)
        /\ \A k \in (o + 1)..(c - 1) : ~IsMarker(out[k].s)

(* an open marker was written immediately before the emitter of binding i *)
OpenedAt(i) == EmitPos(i) > 1 /\ IsOpen(out[EmitPos(i) - 1].s)

(* C31 as stated: in every dump an open marker is written exactly when *)
(* a binding's group differs from the previous binding's group, the    *)
(* markers are well bracketed, and every emitter writes between the    *)
(* open and close markers of its own binding's group.                  *)
C31_AsStated ==
    last.op = "dump"
    => /\ Bracketed
       /\ \A i \in 1..Len(g_cli_out_head) :
             /\ OpenedAt(i) <=> (i = 1 \/ g_cli_out_head[i].group
                                          # g_cli_out_head[i - 1].group)
             /\ InsideBlock(i, g_cli_out_head[i].group)

(* the callbacks on the path of the command a parse matched, outermost *)
(* node first                                                          *)
HandlersOnPath(parse) ==
    SelectSeq(Commands[parse.cmd].chain, LAMBDA cb : cb # NoCb)

(* C32 as stated: the handler a dispatched line invokes in direct mode *)
(* is a handler of the matched path, and when several nodes of the     *)
(* path carry one it is the innermost, most specific one.              *)
C32_AsStated ==
    (last.op = "line" /\ last.res.kind = "dispatch" /\ ~use_yaml)
    => LET found == HandlersOnPath(last.res.parse)
       IN found # <<>> => calls = <<found[Len(found)]>>

(* the words of a command string *)
WordsOf(cmd) == Split(cmd, {" ", "\t"})

(* the first k words of the two strings are the same *)
SameStart(x, y, k) ==
    /\ Len(WordsOf(x)) >= k
    /\ Len(WordsOf(y)) >= k
    /\ SubSeq(WordsOf(x), 1, k) = SubSeq(WordsOf(y), 1, k)

(* what the caller goes on with: the string returned, or the command   *)
(* itself when no expansion is reported                                *)
Continued(cmd, expanded) == IF expanded = NULL THEN cmd ELSE expanded

(* C33: expansion is left to right without backtracking: whenever two  *)
(* commands have the same first k tokens, the strings reconstructed    *)
(* for them have the same first k tokens, in the result buffer and in  *)
(* what the caller goes on with; the word chosen for a token does not  *)
(* depend on any token after it.                                       *)
C33_LeftToRight ==
    last.op = "expanded_pair"
    => \A k \in 1..3 :
          SameStart(last.a, last.b, k)
          => /\ SameStart(last.result_a, last.result_b, k)
             /\ SameStart(Continued(last.a, last.expanded_a),
                          Continued(last.b, last.expanded_b), k)

(* "sh" alone and "sh bogus" were expanded: the word after sh differs, *)
(* has no completion, and sh became show in both                       *)
C33_Witness ==
    /\ last.op = "expanded_pair"
    /\ last.a = s_sh
    /\ last.b = W2(s_sh, s_bogus)
    /\ last.expanded_a = s_show
    /\ last.expanded_b = W2(s_show, s_bogus)

(* what process_line makes of the line of the last editline step in    *)
(* the session that step started from                                  *)
ByProcessLine == process_line(last.before, last.raw, last.env)

(* C34 as stated: for the same session state and input line the        *)
(* editline loop reaches the outcome of process_line: the same         *)
(* handlers are invoked, and the context stack, the application state  *)
(* and the keep-running flag are left the same, for end, exit and a    *)
(* bare group keyword as for every other line.                         *)
C34_AsStated ==
    last.op = "editline"
    => /\ calls = ByProcessLine.calls
       /\ context_stack = ByProcessLine.context_stack
       /\ context_depth = ByProcessLine.context_depth
       /\ g_name = ByProcessLine.g_name
       /\ g_address = ByProcessLine.g_address
       /\ running = ByProcessLine.running

(* the positions of the lines of a read callback whose dispatch ran quit *)
QuitLines(res) ==
    { i \in 1..Len(res) : /\ res[i].kind = "dispatch"
                          /\ ecli_cmd_lookup_callback(res[i].parse) = "quit" }

(* C35 as stated: once a handler has cleared the keep-running flag no   *)
(* later line is resolved or dispatched: after a stdin line that ran   *)
(* quit the only step is the return of ecli_run, and in a read         *)
(* callback the line that ran quit is the last line resolved.          *)
C35_AsStated ==
    [][ /\ (last.op = "line" /\ CalledQuit) => last'.op = "run_return"
        /\ last'.op = "read"
           => \A i \in QuitLines(last'.res) : /\ Len(last'.res) = i
                                              /\ calls'[Len(calls')] = "quit" ]_vars

(* the first depth frame names match the first elements of the path of *)
(* some command of the grammar                                         *)
FramesPrefix(stack, depth) ==
    \E c \in 1..Len(Commands) :
       /\ Len(Commands[c].pat) >= depth
       /\ \A i \in 1..depth : ElemMatch(Commands[c].pat[i], stack[i])

(* C36 as stated: whenever the context stack is not empty the frame    *)
(* names, joined with spaces, are the start of a command the grammar   *)
(* accepts: a group keyword is pushed only where it is valid under the *)
(* current context path.                                               *)
C36_AsStated ==
    context_depth > 0 => FramesPrefix(context_stack, context_depth)

(* the flag, the handle and the stored address agree: a client is      *)
(* flagged exactly when a handle is attached, and the stored address   *)
(* is the peer address of the accept that attached it                  *)
ClientRecorded ==
    /\ has_client <=> client_bev # 0
    /\ client_bev # 0 => /\ client_bev \in 1..Len(fds)
                         /\ fds[client_bev].state = "attached"
                         /\ client_addr = fds[client_bev].addr

(* C37: between callbacks has_client is set exactly when a client      *)
(* handle is attached and the stored address is the peer address of    *)
(* that client's accept; an accept that is rejected or whose attach    *)
(* fails leaves the stored address and the flag as they were.          *)
C37_ClientRecord ==
    [][ /\ ClientRecorded
        /\ ClientRecorded'
        /\ (last'.op = "accept" /\ (has_client \/ ~last'.alloc_ok))
           => /\ client_addr' = client_addr
              /\ has_client' = has_client
              /\ client_bev' = client_bev ]_vars

(* a second peer with another address was rejected while the first is  *)
(* attached, and the stored address is still the first peer's          *)
C37_Witness ==
    /\ last.op = "accept"
    /\ last.had_client
    /\ has_client
    /\ last.addr # client_addr
    /\ client_addr = fds[client_bev].addr
    /\ fds[last.fd].state = "closed"

(* the connections the writes of the last callback went to *)
WrittenTo == { out[i].to : i \in 1..Len(out) }

(* C38: what a read callback writes (handler output, errors, prompts)  *)
(* goes to the client attached while its lines are processed, whose    *)
(* handle is live; a rejected connection is written the rejection      *)
(* notice and nothing else; an admitted connection is written its own  *)
(* greeting; a disconnect event writes nothing; and no write goes      *)
(* through a handle that a disconnect event has freed.                 *)
C38_OutputToAttachedClient ==
    /\ last.op = "read"
          => /\ out # <<>>
             /\ WrittenTo = {client_bev}
             /\ fds[client_bev].state = "attached"
    /\ last.op = "accept"
          => IF last.had_client
             THEN /\ out = <<[to |-> last.fd, s |-> RejectionMsg(client_addr)]>>
                  /\ last.fd # client_bev
             ELSE WrittenTo \subseteq {client_bev} \ {0}
    /\ last.op \in {"event", "loop_enter", "loop_return", "init"} => out = <<>>
    /\ \A fd \in WrittenTo :
          /\ fd \in 1..Len(fds)
          /\ fds[fd].state = "closed" => (last.op = "accept" /\ last.fd = fd)

(* the second client, admitted after the first one's disconnect, sent  *)
(* a line and was written its output                                   *)
C38_Witness ==
    /\ last.op = "read"
    /\ client_bev = 2
    /\ fds[1].bev
    /\ fds[1].state = "closed"
    /\ out # <<>>
    /\ WrittenTo = {2}
    /\ calls # <<>>

(* C39 as stated: for every template and every parameter list the      *)
(* write cursor of ecli_out_fmt ends within output[0..1023], so the    *)
(* terminating NUL is stored inside the buffer and the call returns    *)
(* with the text cut to the buffer.                                    *)
C39_AsStated ==
    last.op = "fmt" => /\ last.cursor <= out_end
                       /\ last.outcome = "returned"

(* C40: at most one context exists.  An ecli_init or ecli_init_tcp     *)
(* called while a context exists returns -1 and leaves the context     *)
(* (mode, grammar in use, context stack, prompt, client) as it was; an *)
(* init that fails installs no context; an init called without a       *)
(* context, also after a shutdown, that does not fail returns 0 and    *)
(* installs a fresh context of the mode asked for; ecli_run without a  *)
(* context returns -1; after ecli_shutdown no context exists.          *)
C40_OneGlobalContext ==
    [][ /\ last'.op = "init_call"
           => IF g_ecli_ctx
              THEN /\ last'.ret = 0 - 1
                   /\ g_ecli_ctx'
                   /\ Context' = Context
              ELSE IF last'.ret < 0
              THEN ~g_ecli_ctx'
              ELSE /\ last'.env \in {"ok", "listener_null"}
                   /\ last'.env = "ok" \/ last'.m = "STDIN"
                   /\ last'.ret = 0
                   /\ g_ecli_ctx'
                   /\ Context' = [mode |-> last'.m, use_yaml |-> FALSE,
                                  use_editline |-> FALSE, context_stack |-> <<>>,
                                  context_depth |-> 0,
                                  current_prompt |-> ecli_update_prompt(<<>>, 0),
                                  has_client |-> FALSE, client_bev |-> 0,
                                  client_addr |-> NoAddr]
        /\ (last'.op = "init_call" /\ ~g_ecli_ctx /\ last'.env = "ok")
           => last'.ret = 0
        /\ (last'.op = "run_call" /\ ~g_ecli_ctx)
           => /\ last'.ret = 0 - 1
              /\ ~g_ecli_ctx'
        /\ last'.op = "shutdown" => ~g_ecli_ctx' ]_vars

(* ecli_init was refused while a remote session with an attached       *)
(* client inside a context exists                                      *)
C40_Witness ==
    /\ last.op = "init_call"
    /\ last.existed
    /\ last.m = "STDIN"
    /\ last.env = "ok"
    /\ last.ret = 0 - 1
    /\ g_ecli_ctx
    /\ mode = "TCP"
    /\ has_client
    /\ context_depth = 1
    /\ last.before = Context

====
